---------------------------- MODULE Spec2Model ----------------------------
(***************************************************************************)
(* Model of the credential-correlation engine of pw_analy_7_xjy.py:        *)
(* normalize_alnum, tokenize_name, deleet, detect_relations, the           *)
(* aggregation loop of analyze_relations and the line parsing of           *)
(* parse_file_collect; and of the three password analyses that run on the  *)
(* same dumps: keyboard patterns (pw_analy2_xjy.py), English words         *)
(* (pw_analy5_wsy.py) and Shannon entropy (pw_analy_6_xjy.py).             *)
(*                                                                         *)
(* Specifications: Spec, SpecLong and SpecSingle run analyze_relations on  *)
(* short lists, on long lists and on one record; SpecStr applies the       *)
(* string functions; SpecParse runs parse_file_collect on a file; SpecPw   *)
(* runs the three analyses on a password list; SpecWords applies           *)
(* extract_valid_words.                                                    *)
(*                                                                         *)
(* A Python string is a sequence of one-character strings; None is the     *)
(* value NoneValue.  A dict with fixed keys is a record, a Counter or      *)
(* defaultdict is a total function over the keys the code can use.         *)
(***************************************************************************)
EXTENDS Integers, Sequences, FiniteSets, TLC

(***************************************************************************)
(* Characters                                                              *)
(***************************************************************************)
LowerLetters ==
    << "a", "b", "c", "d", "e", "f", "g", "h", "i", "j", "k", "l", "m",
       "n", "o", "p", "q", "r", "s", "t", "u", "v", "w", "x", "y", "z" >>

UpperLetters ==
    << "A", "B", "C", "D", "E", "F", "G", "H", "I", "J", "K", "L", "M",
       "N", "O", "P", "Q", "R", "S", "T", "U", "V", "W", "X", "Y", "Z" >>

Digits == { "0", "1", "2", "3", "4", "5", "6", "7", "8", "9" }

\* the characters of U+0001..U+00FF with str.isspace(): space, tab, line
\* feed, carriage return, form feed, vertical tab, U+001C..U+001F, U+0085
\* and the no-break space U+00A0
Whitespace ==
    { " ", "\t", "\n", "\r", "\f",
      "", "", "", "", "", "", " " }

Range(f) == { f[x] : x \in DOMAIN f }

\* Python's None
NoneValue == << "<None>" >>

\* the uppercase letters of U+00C0..U+00DE and their lowercase letters
Latin1Upper ==
    << "À", "Á", "Â", "Ã", "Ä", "Å", "Æ", "Ç", "È", "É", "Ê", "Ë", "Ì",
       "Í", "Î", "Ï", "Ð", "Ñ", "Ò", "Ó", "Ô", "Õ", "Ö", "Ø", "Ù", "Ú",
       "Û", "Ü", "Ý", "Þ" >>

Latin1Lower ==
    << "à", "á", "â", "ã", "ä", "å", "æ", "ç", "è", "é", "ê", "ë", "ì",
       "í", "î", "ï", "ð", "ñ", "ò", "ó", "ô", "õ", "ö", "ø", "ù", "ú",
       "û", "ü", "ý", "þ" >>

\* the lowercase letter of each uppercase letter up to U+00FF
LowerOf ==
    [ c \in Range(UpperLetters) \cup Range(Latin1Upper) |->
        IF c \in Range(UpperLetters)
        THEN LowerLetters[CHOOSE k \in DOMAIN UpperLetters : UpperLetters[k] = c]
        ELSE Latin1Lower[CHOOSE k \in DOMAIN Latin1Upper : Latin1Upper[k] = c] ]

\* str.lower() on one character
LowerChar(c) == IF c \in DOMAIN LowerOf THEN LowerOf[c] ELSE c

\* str.lower()
Lower(s) == [ k \in 1..Len(s) |-> LowerChar(s[k]) ]

\* the character class [a-z0-9]
LowerAlnumChars == Range(LowerLetters) \cup Digits

IsLowerAlnum(c) == c \in LowerAlnumChars

\* the character class [A-Za-z0-9]
AlnumChars == Range(LowerLetters) \cup Range(UpperLetters) \cup Digits

IsAlnum(c) == c \in AlnumChars

\* str.strip(): leading and trailing whitespace removed
Strip(s) ==
    LET keep == { k \in 1..Len(s) : s[k] \notin Whitespace }
    IN  IF keep = {} THEN << >>
        ELSE LET lo == CHOOSE k \in keep : \A m \in keep : k <= m
                 hi == CHOOSE k \in keep : \A m \in keep : k >= m
             IN  SubSeq(s, lo, hi)

IsSubstringMissesEnd(a, b) ==
    \E k \in 0..(Len(b) - Len(a) - 1) : SubSeq(b, k + 1, k + Len(a)) = a

\* a in b (substring)
IsSubstring(a, b) ==
    \E k \in 0..(Len(b) - Len(a)) : SubSeq(b, k + 1, k + Len(a)) = a

\* b.startswith(a)
StartsWith(b, a) == Len(a) <= Len(b) /\ SubSeq(b, 1, Len(a)) = a

\* b.endswith(a)
EndsWith(b, a) ==
    Len(a) <= Len(b) /\ SubSeq(b, Len(b) - Len(a) + 1, Len(b)) = a

ReverseForgotten(s) == s

\* s[::-1]
Reverse(s) == [ k \in 1..Len(s) |-> s[Len(s) + 1 - k] ]

(***************************************************************************)
(* normalize_alnum                                                         *)
(***************************************************************************)
NormalizeNoLower(s) ==
    IF s = NoneValue THEN << >> ELSE SelectSeq(s, IsAlnum)

NormalizeLowerOnly(s) == IF s = NoneValue THEN << >> ELSE Lower(s)

normalize_alnum(s) ==
    IF s = NoneValue THEN << >>
    ELSE SelectSeq(Lower(s), IsLowerAlnum)

(***************************************************************************)
(* tokenize_name                                                           *)
(***************************************************************************)
\* re.split(r'[^A-Za-z0-9]+', s): the pieces between the maximal runs of
\* delimiters, the empty pieces at both ends included
RECURSIVE SplitFrom(_, _, _, _)
SplitFrom(s, k, cur, parts) ==
    IF k > Len(s) THEN Append(parts, cur)
    ELSE IF IsAlnum(s[k]) THEN SplitFrom(s, k + 1, Append(cur, s[k]), parts)
    ELSE LET rest == { m \in k..Len(s) : IsAlnum(s[m]) }
             nxt  == IF rest = {} THEN Len(s) + 1
                     ELSE CHOOSE m \in rest : \A n \in rest : m <= n
         IN  SplitFrom(s, nxt, << >>, Append(parts, cur))

re_split_nonalnum(s) == SplitFrom(s, 1, << >>, << >>)

LongEnough(p) == Len(p) >= 3

TokenizeKeepsShort(s) ==
    IF s = NoneValue \/ s = << >> THEN << >>
    ELSE LET parts == SelectSeq(re_split_nonalnum(Strip(s)), LAMBDA p : Len(p) >= 2)
         IN  [ k \in 1..Len(parts) |-> Lower(parts[k]) ]

tokenize_name(s) ==
    IF s = NoneValue \/ s = << >> THEN << >>
    ELSE LET parts == SelectSeq(re_split_nonalnum(Strip(s)), LongEnough)
         IN  [ k \in 1..Len(parts) |-> Lower(parts[k]) ]

(***************************************************************************)
(* deleet                                                                  *)
(***************************************************************************)
LeetMapWithoutPlus ==
    ("4" :> "a") @@ ("@" :> "a") @@
    ("0" :> "o") @@
    ("1" :> "l") @@ ("!" :> "i") @@
    ("3" :> "e") @@
    ("$" :> "s") @@ ("5" :> "s") @@
    ("7" :> "t") @@
    ("2" :> "z") @@
    ("9" :> "g") @@ ("6" :> "g")

LeetMapWithEight ==
    ("4" :> "a") @@ ("@" :> "a") @@
    ("0" :> "o") @@
    ("1" :> "l") @@ ("!" :> "i") @@
    ("3" :> "e") @@
    ("$" :> "s") @@ ("5" :> "s") @@
    ("7" :> "t") @@ ("+" :> "t") @@
    ("2" :> "z") @@
    ("9" :> "g") @@ ("6" :> "g") @@
    ("8" :> "b")

LEET_MAP ==
    ("4" :> "a") @@ ("@" :> "a") @@
    ("0" :> "o") @@
    ("1" :> "l") @@ ("!" :> "i") @@
    ("3" :> "e") @@
    ("$" :> "s") @@ ("5" :> "s") @@
    ("7" :> "t") @@ ("+" :> "t") @@
    ("2" :> "z") @@
    ("9" :> "g") @@ ("6" :> "g")

deleet(s) ==
    IF s = NoneValue \/ s = << >> THEN << >>
    ELSE Lower([ k \in 1..Len(s) |->
                    IF s[k] \in DOMAIN LEET_MAP THEN LEET_MAP[s[k]] ELSE s[k] ])

(***************************************************************************)
(* detect_relations                                                        *)
(***************************************************************************)
\* x or ""
OrEmpty(x) == IF x = NoneValue THEN << >> ELSE x

\* email.split('@')[0] when '@' in email, else ""
LocalPart(email) ==
    LET ats == { k \in 1..Len(email) : email[k] = "@" }
    IN  IF ats = {} THEN << >>
        ELSE SubSeq(email, 1, (CHOOSE k \in ats : \A m \in ats : k <= m) - 1)

ExactMatchNoGuard(x_norm, p_norm) == p_norm = x_norm

\* (x_norm != "" and p_norm == x_norm)
ExactMatch(x_norm, p_norm) == x_norm # << >> /\ p_norm = x_norm

\* (x_norm != "" and x_norm in p_norm)
ContainsNorm(x_norm, p_norm) == x_norm # << >> /\ IsSubstring(x_norm, p_norm)

MatchedTokensFirstOnly(tokens, p) ==
    LET hits == SelectSeq(tokens, LAMBDA t : t # << >> /\ IsSubstring(t, p))
    IN  IF hits = << >> THEN << >> ELSE << hits[1] >>

\* for t in tokens: if t and t in p: matched.append(t)
MatchedTokens(tokens, p) ==
    SelectSeq(tokens, LAMBDA t : t # << >> /\ IsSubstring(t, p))

detect_relations(record) ==
    LET uname      == OrEmpty(record.username)
        email      == OrEmpty(record.email)
        pwd        == OrEmpty(record.password)
        u_norm     == normalize_alnum(uname)
        e_norm     == normalize_alnum(email)
        p_norm     == normalize_alnum(pwd)
        local      == LocalPart(email)
        local_norm == normalize_alnum(local)
        tokens     == tokenize_name(uname) \o tokenize_name(local)
        rev_un     == IF u_norm # << >> THEN Reverse(u_norm) ELSE << >>
        p_deleet   == normalize_alnum(deleet(pwd))
    IN  [ exact_username           |-> ExactMatch(u_norm, p_norm),
          exact_email              |-> ExactMatch(e_norm, p_norm),
          contains_username        |-> ContainsNorm(u_norm, p_norm),
          startswith_username      |-> u_norm # << >> /\ StartsWith(p_norm, u_norm),
          endswith_username        |-> u_norm # << >> /\ EndsWith(p_norm, u_norm),
          contains_localpart       |-> ContainsNorm(local_norm, p_norm),
          contains_token           |-> MatchedTokens(tokens, p_norm) # << >>,
          matched_tokens           |-> MatchedTokens(tokens, p_norm),
          reversed_username        |-> ContainsNorm(rev_un, p_norm),
          deleet_contains_username |-> ContainsNorm(u_norm, p_deleet),
          deleet_contains_token    |-> MatchedTokens(tokens, p_deleet) # << >>,
          matched_deleet_tokens    |-> MatchedTokens(tokens, p_deleet) ]

(***************************************************************************)
(* analyze_relations: the pieces of the loop body                          *)
(***************************************************************************)
PriorityKeysEmailFirst ==
    << "exact_email", "exact_username", "contains_username",
       "contains_localpart", "contains_token", "deleet_contains_username",
       "deleet_contains_token", "reversed_username" >>

priority_keys ==
    << "exact_username", "exact_email", "contains_username",
       "contains_localpart", "contains_token", "deleet_contains_username",
       "deleet_contains_token", "reversed_username" >>

\* primary = None
NoPrimary == "None"

CountKeys == Range(priority_keys) \cup { "related", "no_relation" }

ExampleKeys == Range(priority_keys) \cup { "no_relation" }

\* for k in priority_keys: if flags.get(k): primary = k; break
PrimaryRelation(flags) ==
    LET hits == { k \in DOMAIN priority_keys : flags[priority_keys[k]] }
    IN  IF hits = {} THEN NoPrimary
        ELSE priority_keys[CHOOSE k \in hits : \A m \in hits : k <= m]

\* the entry appended to matches: (rec, primary, flags)
MatchEntry(rec) ==
    LET flags == detect_relations(rec)
    IN  [ rec |-> rec, primary |-> PrimaryRelation(flags), flags |-> flags ]

CountPrimaryRelatedFromLabel(counts, primary) ==
    IF primary = NoPrimary
    THEN [ counts EXCEPT !["no_relation"] = @ + 1 ]
    ELSE [ counts EXCEPT ![primary] = @ + 1, !["related"] = counts[primary] ]

CountPrimaryBoth(counts, primary) ==
    IF primary = NoPrimary
    THEN [ counts EXCEPT !["no_relation"] = @ + 1 ]
    ELSE [ counts EXCEPT ![primary] = @ + 1, !["related"] = @ + 1,
                         !["no_relation"] = @ + 1 ]

\* counts[k] += 1, then counts['no_relation'] += 1 or counts['related'] += 1
CountPrimary(counts, primary) ==
    IF primary = NoPrimary
    THEN [ counts EXCEPT !["no_relation"] = @ + 1 ]
    ELSE [ counts EXCEPT ![primary] = @ + 1, !["related"] = @ + 1 ]

\* count / total * 100 if total else 0, as the fraction num/den; den = 0
\* stands for the ZeroDivisionError of an unguarded division
Percentage(count, total) ==
    IF total # 0 THEN [ num |-> count * 100, den |-> total ]
    ELSE [ num |-> 0, den |-> 1 ]

\* the cap of an example list
ExampleCap == 10

AddExampleNoCap(examples, m) ==
    LET key == IF m.primary # NoPrimary THEN m.primary ELSE "no_relation"
    IN  [ examples EXCEPT ![key] = Append(@, m.rec) ]

\* key = primary or 'no_relation'; append while len(examples[key]) < 10
AddExample(examples, m) ==
    LET key == IF m.primary # NoPrimary THEN m.primary ELSE "no_relation"
    IN  IF Len(examples[key]) < ExampleCap
        THEN [ examples EXCEPT ![key] = Append(@, m.rec) ]
        ELSE examples

\* the counts after the first loop has run over recs
RECURSIVE CountsAfter(_)
CountsAfter(recs) ==
    IF recs = << >> THEN [ k \in CountKeys |-> 0 ]
    ELSE CountPrimary(CountsAfter(SubSeq(recs, 1, Len(recs) - 1)),
                      MatchEntry(recs[Len(recs)]).primary)

\* os.path.join(OUTPUT_DIR, ...) with OUTPUT_DIR = "analysis_relation"
REPORT_PATH == "analysis_relation/relation_report.txt"

MATCH_CSV == "analysis_relation/matches.csv"

PIE_PNG == "analysis_relation/relation_pie.png"

\* the dict analyze_relations returns
SummaryOf(total, counts) ==
    [ total           |-> total,
      related         |-> counts["related"],
      no_relation     |-> counts["no_relation"],
      related_pct     |-> Percentage(counts["related"], total),
      no_relation_pct |-> Percentage(counts["no_relation"], total),
      detail          |-> [ k \in Range(priority_keys) |-> counts[k] ],
      report_path     |-> REPORT_PATH,
      csv_path        |-> MATCH_CSV,
      pie_path        |-> PIE_PNG ]

\* sep.join(parts)
RECURSIVE Join(_, _)
Join(parts, sep) ==
    IF parts = << >> THEN << >>
    ELSE IF Len(parts) = 1 THEN parts[1]
    ELSE parts[1] \o sep \o Join(Tail(parts), sep)

\* the keys of the dict of detect_relations that hold a flag, in the order
\* they are inserted (flags.items() without the two lists)
FlagKeys ==
    << "exact_username", "exact_email", "contains_username",
       "startswith_username", "endswith_username", "contains_localpart",
       "contains_token", "reversed_username", "deleet_contains_username",
       "deleet_contains_token" >>

CsvHeader ==
    << "src", "username", "email", "password", "primary_relation", "flags",
       "matched_tokens", "matched_deleet_tokens" >>

\* csv.writer writes None as the empty string
CsvCell(v) == IF v = NoneValue THEN << >> ELSE v

\* the row of one match, as its cells before quoting; the names of the flags
\* that hold stay whole between the ';'
CsvRow(m) ==
    [ src                   |-> m.rec.src,
      username              |-> CsvCell(m.rec.username),
      email                 |-> CsvCell(m.rec.email),
      password              |-> CsvCell(m.rec.password),
      primary_relation      |-> m.primary,
      flags                 |-> Join([ k \in 1..Len(SelectSeq(FlagKeys, LAMBDA f : m.flags[f])) |->
                                         << SelectSeq(FlagKeys, LAMBDA f : m.flags[f])[k] >> ],
                                     << ";" >>),
      matched_tokens        |-> Join(m.flags.matched_tokens, << "," >>),
      matched_deleet_tokens |-> Join(m.flags.matched_deleet_tokens, << "," >>) ]

\* one row for every match with primary is not None, in the order of matches
CsvRows(matches) ==
    LET written == SelectSeq(matches, LAMBDA m : m.primary # NoPrimary)
    IN  [ k \in 1..Len(written) |-> CsvRow(written[k]) ]

\* A Python float is an IEEE 754 double: 53 significant bits
MantissaBits == 53

\* The integers of the model are narrower than a significand, so a
\* natural number is written as a sequence of digits of base 2^DigitBits,
\* most significant first and without leading zeros (<< >> is 0)
DigitBits == 8

Base == 2^DigitBits

RECURSIVE DigitsOf(_)
DigitsOf(n) == IF n = 0 THEN << >> ELSE Append(DigitsOf(n \div Base), n % Base)

RECURSIVE DigitsValue(_)
DigitsValue(digits) ==
    IF digits = << >> THEN 0
    ELSE Base * DigitsValue(SubSeq(digits, 1, Len(digits) - 1)) + digits[Len(digits)]

RECURSIVE StripZeros(_)
StripZeros(digits) ==
    IF digits # << >> /\ Head(digits) = 0 THEN StripZeros(Tail(digits)) ELSE digits

\* digits + 1
RECURSIVE DigitsPlusOne(_)
DigitsPlusOne(digits) ==
    IF digits = << >> THEN << 1 >>
    ELSE IF digits[Len(digits)] < Base - 1
    THEN [ digits EXCEPT ![Len(digits)] = digits[Len(digits)] + 1 ]
    ELSE Append(DigitsPlusOne(SubSeq(digits, 1, Len(digits) - 1)), 0)

\* the state in which the loops over digits start
NoDigits == [ out |-> << >>, carry |-> 0 ]

\* digits * c for an int c >= 1, from the last digit to the first:
\* loop.out holds the digits of the product found so far, loop.carry
\* what goes into the next one
RECURSIVE DigitsTimes(_, _, _)
DigitsTimes(loop, digits, c) ==
    IF Len(loop.out) >= Len(digits) /\ loop.carry = 0 THEN loop.out
    ELSE LET k == Len(digits) - Len(loop.out)
             v == (IF k >= 1 THEN digits[k] * c ELSE 0) + loop.carry
         IN  DigitsTimes([ out |-> << v % Base >> \o loop.out, carry |-> v \div Base ],
                         digits, c)

\* a + b: the digits are added place by place, and a place takes a
\* carry when a place below it overflows and all places between are full
DigitsAdd(a, b) ==
    LET n        == 1 + (IF Len(a) > Len(b) THEN Len(a) ELSE Len(b))
        at(d, k) == IF k > n - Len(d) THEN d[k - (n - Len(d))] ELSE 0
        raw      == [ k \in 1..n |-> at(a, k) + at(b, k) ]
        carry(k) == \E j \in (k + 1)..n :
                        raw[j] >= Base /\ \A t \in (k + 1)..(j - 1) : raw[t] = Base - 1
    IN  StripZeros([ k \in 1..n |-> (raw[k] + (IF carry(k) THEN 1 ELSE 0)) % Base ])

\* a * b, digit by digit of b: loop.out is a times the digits of b done
RECURSIVE DigitsMul(_, _, _)
DigitsMul(loop, a, b) ==
    IF loop.carry = Len(b) THEN StripZeros(loop.out)
    ELSE DigitsMul([ out   |-> DigitsAdd(Append(loop.out, 0),
                                         DigitsTimes(NoDigits, a, b[loop.carry + 1])),
                     carry |-> loop.carry + 1 ], a, b)

\* digits divided by d, from the first digit to the last: loop.out holds
\* the digits of the quotient, loop.carry the remainder
RECURSIVE DigitsDiv(_, _, _)
DigitsDiv(loop, digits, d) ==
    IF Len(loop.out) = Len(digits) THEN loop
    ELSE LET v == loop.carry * Base + digits[Len(loop.out) + 1]
         IN  DigitsDiv([ out |-> Append(loop.out, v \div d), carry |-> v % d ], digits, d)

\* digits * 2^k
Scale(digits, k) ==
    DigitsTimes(NoDigits, digits, 2^(k % DigitBits)) \o [ n \in 1..(k \div DigitBits) |-> 0 ]

\* The number of significant bits of digits
BitLength(digits) ==
    IF digits = << >> THEN 0
    ELSE DigitBits * (Len(digits) - 1)
         + (CHOOSE k \in 1..DigitBits : 2^(k - 1) <= digits[1] /\ digits[1] < 2^k)

\* (digits + a fraction that is nonzero iff more) / 2^s for s >= 1,
\* rounded to the nearest integer, a tie to the even one
ShiftRound(digits, s, more) ==
    LET w      == (s - 1) \div DigitBits
        b      == (s - 1) % DigitBits
        n      == Len(digits)
        kept   == IF w < n THEN SubSeq(digits, 1, n - w) ELSE << >>
        low    == \E k \in (n - w + 1)..n : k >= 1 /\ digits[k] # 0
        dv     == DigitsDiv(NoDigits, kept, 2^(b + 1))
        q      == StripZeros(dv.out)
        guard  == dv.carry >= 2^b
        sticky == more \/ low \/ dv.carry % 2^b # 0
        odd    == q # << >> /\ q[Len(q)] % 2 = 1
    IN  IF guard /\ (sticky \/ odd) THEN DigitsPlusOne(q) ELSE q

\* A double is held as [ neg, m, x ]: the value m * 2^x with the sign,
\* m a significand of exactly 53 bits; zero has no digits
Zero == [ neg |-> FALSE, m |-> << >>, x |-> 0 ]

\* The double nearest to (digits + fraction) * 2^x, a tie to the even one
RoundToFloat(digits, x, more) ==
    LET s == BitLength(digits) - MantissaBits
        r == ShiftRound(digits, s, more)
    IN  IF s <= 0 THEN [ neg |-> FALSE, m |-> Scale(digits, 0 - s), x |-> x + s ]
        ELSE IF BitLength(r) > MantissaBits
        THEN [ neg |-> FALSE, m |-> ShiftRound(r, 1, FALSE), x |-> x + s + 1 ]
        ELSE [ neg |-> FALSE, m |-> r, x |-> x + s ]

\* float(n) for an int n >= 0
FloatOf(n) == IF n = 0 THEN Zero ELSE RoundToFloat(DigitsOf(n), 0, FALSE)

\* a + b for two doubles that are zero or of the same sign
FloatAdd(a, b) ==
    IF a.m = << >> THEN (IF b.m = << >> THEN [ Zero EXCEPT !.neg = a.neg /\ b.neg ] ELSE b)
    ELSE IF b.m = << >> THEN a
    ELSE LET x == IF a.x < b.x THEN a.x ELSE b.x
         IN  [ RoundToFloat(DigitsAdd(Scale(a.m, a.x - x), Scale(b.m, b.x - x)),
                            x, FALSE) EXCEPT !.neg = a.neg ]

\* a * b for two doubles
FloatProduct(a, b) ==
    IF a.m = << >> \/ b.m = << >> THEN [ Zero EXCEPT !.neg = (a.neg # b.neg) ]
    ELSE [ RoundToFloat(DigitsMul(NoDigits, a.m, b.m), a.x + b.x, FALSE)
               EXCEPT !.neg = (a.neg # b.neg) ]

\* a / n for a double a and an int n >= 1
FloatOver(a, n) ==
    IF a.m = << >> THEN a
    ELSE LET dv == DigitsDiv(NoDigits, a.m \o << 0, 0, 0, 0 >>, n)
         IN  [ RoundToFloat(StripZeros(dv.out), a.x - 4 * DigitBits, dv.carry # 0)
                   EXCEPT !.neg = a.neg ]

\* n / t of two ints, n >= 0 and t >= 1: Python's true division gives
\* the double nearest to the quotient
TrueDivide(n, t) == FloatOver(FloatOf(n), t)

\* f"{a:.2f}" (scale 100) or f"{a:.3f}" (scale 1000) of a double a >= 0
\* as a number of hundredths or thousandths: the exact value of a
\* rounded to that many decimals, a tie to the even one
FormatFixed(a, scale) ==
    IF a.m = << >> THEN 0
    ELSE DigitsValue(ShiftRound(DigitsTimes(NoDigits, a.m, scale), 0 - a.x, FALSE))

\* f"{pct:.2f}" as hundredths of a percent. pct holds count * 100 over
\* total; the code formats the float count / total * 100, or the int 0
\* when there is no record. (The digits are exact for totals below 2^23.)
Hundredths(pct) ==
    IF pct.num = 0 THEN 0
    ELSE FormatFixed(FloatProduct(TrueDivide(pct.num \div 100, pct.den), FloatOf(100)), 100)

\* the line written under a label that has no example (its text, which says
\* "no examples", is in Chinese)
NoExamples == "  (no examples)"

\* what the report holds, line by line: the totals, the count of every key
\* of priority_keys, the examples under every key and the path of the CSV
ReportOf(total, related, related_pct, no_relation, no_relation_pct, detail, examples) ==
    LET keys == priority_keys \o << "no_relation" >>
    IN  [ total           |-> total,
          related         |-> related,
          related_pct     |-> Hundredths(related_pct),
          no_relation     |-> no_relation,
          no_relation_pct |-> Hundredths(no_relation_pct),
          detail          |-> [ k \in 1..Len(priority_keys) |->
                                  << priority_keys[k], detail[priority_keys[k]] >> ],
          examples        |-> [ k \in 1..Len(keys) |->
                                  [ key   |-> keys[k],
                                    lines |-> IF examples[keys[k]] = << >>
                                              THEN << NoExamples >>
                                              ELSE examples[keys[k]] ] ],
          csv_path        |-> MATCH_CSV ]

\* f"{l} ({s})" for the two labels
PieLabels(sizes) ==
    << << "related", sizes[1] >>, << "no_relation", sizes[2] >> >>

\* plt.pie is matplotlib's, and the repository names no release of it.
\* With a positive sum the chart is drawn and saved.  With a sum of 0 it
\* depends on the release: one that always draws every size as its share
\* of the sum (the default of the newer ones) gets 0/0, not a number, and
\* raises a ValueError; one that leaves sizes with a sum below 1 as they
\* are draws two empty wedges and the chart is saved
PieOutcomes(sizes) ==
    IF sizes[1] + sizes[2] = 0 THEN { "saved", "raised" } ELSE { "saved" }

(***************************************************************************)
(* parse_file_collect                                                      *)
(***************************************************************************)
\* s.split(sep) for a one-character sep: the fields between the separators
SplitOn(s, sep) ==
    LET pos    == { k \in 1..Len(s) : s[k] = sep }
        cut(n) == IF n = 0 THEN 0
                  ELSE IF n = Cardinality(pos) + 1 THEN Len(s) + 1
                  ELSE CHOOSE k \in pos : Cardinality({ j \in pos : j <= k }) = n
    IN  [ n \in 1..(Cardinality(pos) + 1) |->
            SubSeq(s, cut(n - 1) + 1, cut(n) - 1) ]

\* [p.strip() for p in parts]
StripAll(parts) == [ n \in 1..Len(parts) |-> Strip(parts[n]) ]

IsQuote(c) == c = "\"" \/ c = "'"

strip_quotes(s) ==
    IF s = NoneValue \/ s = << >> THEN s
    ELSE LET st == Strip(s)
         IN  IF st # << >> /\ IsQuote(st[1]) /\ st[Len(st)] = st[1]
             THEN SubSeq(st, 2, Len(st) - 1)
             ELSE st

\* the (username, email, password) triple of a line that gave no fields
NoFields == [ uname |-> NoneValue, email |-> NoneValue, pwd |-> NoneValue ]

HasChar(c, s) == \E k \in 1..Len(s) : s[k] = c

extract_yahoo_fields(line) ==
    LET parts == StripAll(SplitOn(line, ":"))
    IN  IF Len(parts) >= 3
        THEN LET username == parts[2]
                 password == parts[Len(parts)]
                 email    == IF HasChar("@", username) THEN username ELSE << >>
             IN  [ uname |-> strip_quotes(username),
                   email |-> strip_quotes(email),
                   pwd   |-> strip_quotes(password) ]
        ELSE NoFields

extract_csdn_fields(line) ==
    LET parts == StripAll(SplitOn(line, "#"))
    IN  IF Len(parts) >= 3
        THEN [ uname |-> strip_quotes(parts[1]),
               email |-> strip_quotes(parts[3]),
               pwd   |-> strip_quotes(parts[2]) ]
        ELSE NoFields

\* line.rstrip('\n\r')
RStripNewline(line) ==
    LET keep == { k \in 1..Len(line) : line[k] \notin { "\n", "\r" } }
    IN  IF keep = {} THEN << >>
        ELSE SubSeq(line, 1, CHOOSE k \in keep : \A m \in keep : k >= m)

IsBlank(c) == c = "\t" \/ c = " "

\* re.split(r'[\t ]+', s): the pieces between the runs of tabs and spaces
RECURSIVE SplitBlanksFrom(_, _, _, _)
SplitBlanksFrom(s, k, cur, parts) ==
    IF k > Len(s) THEN Append(parts, cur)
    ELSE IF ~IsBlank(s[k]) THEN SplitBlanksFrom(s, k + 1, Append(cur, s[k]), parts)
    ELSE LET rest == { m \in k..Len(s) : ~IsBlank(s[m]) }
             nxt  == IF rest = {} THEN Len(s) + 1
                     ELSE CHOOSE m \in rest : \A n \in rest : m <= n
         IN  SplitBlanksFrom(s, nxt, << >>, Append(parts, cur))

\* [p.strip() for p in re.split(r'[\t ]+', line) if p.strip() != '']
BlankSeparatedParts(line) ==
    StripAll(SelectSeq(SplitBlanksFrom(line, 1, << >>, << >>),
                       LAMBDA q : Strip(q) # << >>))

\* the fallback branch of parse_file_collect
HeuristicFields(line) ==
    LET parts == BlankSeparatedParts(line)
    IN  IF Len(parts) >= 2
        THEN IF HasChar("@", parts[1])
             THEN [ uname |-> SplitOn(parts[1], "@")[1],
                    email |-> parts[1],
                    pwd   |-> parts[2] ]
             ELSE [ uname |-> parts[1], email |-> NoneValue, pwd |-> parts[2] ]
        ELSE [ uname |-> NoneValue, email |-> NoneValue, pwd |-> parts[1] ]

\* the branch taken by the characters the line holds: lines 110-132
FieldsOf(line) ==
    IF HasChar("#", line) /\ HasChar("@", line) THEN extract_csdn_fields(line)
    ELSE IF HasChar(":", line) THEN extract_yahoo_fields(line)
    ELSE HeuristicFields(line)

\* not line.strip()
BlankLine(line) == Strip(line) = << >>

\* the record appended for a line that is not blank (after rstrip)
RecordOf(line, src) ==
    LET f     == FieldsOf(line)
        uname == IF f.uname = NoneValue /\ f.email # NoneValue
                    /\ f.email # << >> /\ HasChar("@", f.email)
                 THEN SplitOn(f.email, "@")[1]
                 ELSE f.uname
    IN  [ username |-> OrEmpty(uname),
          email    |-> OrEmpty(f.email),
          password |-> OrEmpty(f.pwd),
          src      |-> src ]

(***************************************************************************)
(* pw_analy2_xjy.py: keyboard patterns                                     *)
(***************************************************************************)
HORIZONTAL_ROWS ==
    << << "1", "2", "3", "4", "5", "6", "7", "8", "9", "0" >>,
       << "q", "w", "e", "r", "t", "y", "u", "i", "o", "p" >>,
       << "a", "s", "d", "f", "g", "h", "j", "k", "l" >>,
       << "z", "x", "c", "v", "b", "n", "m" >> >>

VERTICAL_COLS ==
    << << "1", "q", "a", "z" >>,
       << "2", "w", "s", "x" >>,
       << "3", "e", "d", "c" >>,
       << "4", "r", "f", "v" >>,
       << "5", "t", "g", "b" >>,
       << "6", "y", "h", "n" >>,
       << "7", "u", "j", "m" >>,
       << "8", "i", "k", "," >>,
       << "9", "o", "l", "." >>,
       << "0", "p", ";", "/" >> >>

DIAGONAL_COLS ==
    << << "!", "Q", "A", "Z" >>,
       << "@", "W", "S", "X" >>,
       << "#", "E", "D", "C" >>,
       << "$", "R", "F", "V" >>,
       << "%", "T", "G", "B" >>,
       << "^", "Y", "H", "N" >>,
       << "&", "U", "J", "M" >>,
       << "*", "I", "K", "<" >>,
       << "(", "O", "L", ">" >>,
       << ")", "P", ":", "?" >> >>

SHIFT_ROW == << "!", "@", "#", "$", "%", "^", "&", "*", "(", ")" >>

\* the uppercase letter of each lowercase letter
UpperOf == [ c \in Range(LowerLetters) |->
               UpperLetters[CHOOSE k \in DOMAIN LowerLetters : LowerLetters[k] = c] ]

\* r.upper()
Upper(s) ==
    [ k \in 1..Len(s) |-> IF s[k] \in DOMAIN UpperOf THEN UpperOf[s[k]] ELSE s[k] ]

\* the keys of KEYBOARD_SETS, in the order of the dict
Directions == << "Horizontal", "Vertical", "Diagonal" >>

KEYBOARD_SETS ==
    [ Horizontal |-> HORIZONTAL_ROWS
                         \o [ k \in 1..Len(HORIZONTAL_ROWS) |-> Upper(HORIZONTAL_ROWS[k]) ],
      Vertical   |-> VERTICAL_COLS,
      Diagonal   |-> DIAGONAL_COLS \o << SHIFT_ROW >> ]

\* the default of min_seq_len
MinSeqLen == 3

\* the concatenation of a sequence of sequences
RECURSIVE Flatten(_)
Flatten(ss) ==
    IF ss = << >> THEN << >>
    ELSE Flatten(SubSeq(ss, 1, Len(ss) - 1)) \o ss[Len(ss)]

\* the sequences of one row found in the password, forwards or backwards
FoundInRow(seq_row, pwd_lower) ==
    Flatten([ j \in 1..(Len(seq_row) - MinSeqLen + 1) |->
        LET seq == SubSeq(seq_row, j, j + MinSeqLen - 1)
        IN  IF IsSubstring(Lower(seq), pwd_lower) THEN << seq >>
            ELSE IF IsSubstring(Lower(Reverse(seq)), pwd_lower)
                 THEN << Reverse(seq) >>
                 ELSE << >> ])

find_keyboard_sequences(pwd) ==
    [ direction \in Range(Directions) |->
        Flatten([ r \in 1..Len(KEYBOARD_SETS[direction]) |->
                    FoundInRow(KEYBOARD_SETS[direction][r], Lower(pwd)) ]) ]

\* type_counts, seq_counter and keyboard_pwds after the loop over passwords;
\* a Counter is kept as the sequence of everything it was updated with
RECURSIVE KeyboardLoop(_)
KeyboardLoop(passwords) ==
    IF passwords = << >>
    THEN [ type_counts   |-> [ d \in Range(Directions) |-> 0 ],
           seq_counter   |-> [ d \in Range(Directions) |-> << >> ],
           keyboard_pwds |-> << >> ]
    ELSE LET before == KeyboardLoop(SubSeq(passwords, 1, Len(passwords) - 1))
             pwd     == passwords[Len(passwords)]
             found   == find_keyboard_sequences(pwd)
             has_any == \E d \in Range(Directions) : found[d] # << >>
         IN  [ type_counts   |-> [ d \in Range(Directions) |->
                                     IF found[d] # << >>
                                     THEN before.type_counts[d] + 1
                                     ELSE before.type_counts[d] ],
               seq_counter   |-> [ d \in Range(Directions) |->
                                     before.seq_counter[d] \o found[d] ],
               keyboard_pwds |-> IF has_any
                                 THEN Append(before.keyboard_pwds, pwd)
                                 ELSE before.keyboard_pwds ]

\* what analyze_keyboard_patterns prints and writes to its report (the top
\* 10 listings and the charts left out)
analyze_keyboard_patterns(passwords) ==
    LET loop     == KeyboardLoop(passwords)
        total    == Len(passwords)
        total_kb == Len(loop.keyboard_pwds)
    IN  [ total       |-> total,
          total_kb    |-> total_kb,
          ratio       |-> Percentage(total_kb, total),
          type_counts |-> loop.type_counts,
          pct         |-> [ d \in Range(Directions) |->
                              Percentage(loop.type_counts[d], total_kb) ],
          seq_counter |-> loop.seq_counter,
          samples     |-> SubSeq(loop.keyboard_pwds, 1,
                                 IF total_kb < 10 THEN total_kb ELSE 10) ]

(***************************************************************************)
(* pw_analy_6_xjy.py: Shannon entropy                                      *)
(***************************************************************************)
\* math.log2 is the logarithm of the C library, which is accurate to a
\* little over half a unit in the last place: it returns the double
\* nearest to the logarithm, or, when the logarithm lies close to the
\* middle between two doubles, either of the two. To find these doubles
\* the logarithm is first computed as a decimal fixed-point number
\* << whole, f1, f2, f3, f4 >> with four groups of six decimals:
\* whole + f1 / 10^6 + f2 / 10^12 + f3 / 10^18 + f4 / 10^24
FxBase == 1000000

FxZero == << 0, 0, 0, 0, 0 >>

FxOne == << 1, 0, 0, 0, 0 >>

\* carries and borrows taken from each group into the next higher one
FxCarry(u) ==
    LET s4 == u[4] + u[5] \div FxBase
        s3 == u[3] + s4 \div FxBase
        s2 == u[2] + s3 \div FxBase
    IN  << u[1] + s2 \div FxBase, s2 % FxBase, s3 % FxBase, s4 % FxBase, u[5] % FxBase >>

FxAdd(x, y) == FxCarry([ i \in 1..5 |-> x[i] + y[i] ])

FxSub(x, y) == FxCarry([ i \in 1..5 |-> x[i] - y[i] ])

\* x * c for a small nonnegative int c
FxTimes(x, c) == FxCarry([ i \in 1..5 |-> x[i] * c ])

\* x / d for a small positive int d, the decimals after the 24th dropped
FxOver(x, d) ==
    LET v2 == (x[1] % d) * FxBase + x[2]
        v3 == (v2 % d) * FxBase + x[3]
        v4 == (v3 % d) * FxBase + x[4]
        v5 == (v4 % d) * FxBase + x[5]
    IN  << x[1] \div d, v2 \div d, v3 \div d, v4 \div d, v5 \div d >>

\* loop.x * 2^loop.k, or loop.x / 2^(-loop.k), ten bits at a time
RECURSIVE FxShift(_)
FxShift(loop) ==
    IF loop.k >= 10 THEN FxShift([ x |-> FxTimes(loop.x, 1024), k |-> loop.k - 10 ])
    ELSE IF loop.k >= 0 THEN FxTimes(loop.x, 2^loop.k)
    ELSE IF loop.k <= -10 THEN FxShift([ x |-> FxOver(loop.x, 1024), k |-> loop.k + 10 ])
    ELSE FxOver(loop.x, 2^(0 - loop.k))

\* 2 / ln(2) = 2.885390 081777 926814 719849 ...
TWO_OVER_LN2 == << 2, 885390, 81777, 926814, 719849 >>

\* The loop that sums the series t/1 + t/(3 z^2) + t/(5 z^4) + ... until
\* its terms vanish, three terms every turn; loop.term is t / z^(2k),
\* loop.sum the terms before it
RECURSIVE Log2Series(_, _)
Log2Series(loop, z) ==
    IF loop.term = FxZero THEN loop.sum
    ELSE LET t1 == FxOver(FxOver(loop.term, z), z)
             t2 == FxOver(FxOver(t1, z), z)
         IN  Log2Series([ term |-> FxOver(FxOver(t2, z), z),
                          k    |-> loop.k + 3,
                          sum  |-> FxAdd(FxAdd(FxAdd(loop.sum,
                                                     FxOver(loop.term, 2 * loop.k + 1)),
                                               FxOver(t1, 2 * loop.k + 3)),
                                         FxOver(t2, 2 * loop.k + 5)) ], z)

\* log2(n / (n - 1)) for an odd n >= 3: with z = 2 * n - 1 it is
\* 2 / ln(2) * (1/z + 1/(3 z^3) + 1/(5 z^5) + ...)
Log2Step(n) ==
    Log2Series([ term |-> FxOver(TWO_OVER_LN2, 2 * n - 1), k |-> 0, sum |-> FxZero ],
               2 * n - 1)

\* loop.sum + log2(loop.n): the twos in n count one bit each, and an odd
\* n above 1 is lowered by one for log2(n / (n - 1))
RECURSIVE Log2Loop(_)
Log2Loop(loop) ==
    LET twos == CHOOSE k \in 0..29 : loop.n % 2^k = 0 /\ loop.n % 2^(k + 1) # 0
        odd  == loop.n \div 2^twos
        sum  == FxAdd(loop.sum, << twos, 0, 0, 0, 0 >>)
    IN  IF odd = 1 THEN sum
        ELSE Log2Loop([ n |-> odd - 1, sum |-> FxAdd(sum, Log2Step(odd)) ])

\* log2(n) of an int n >= 1 to 24 decimals
Log2(n) == Log2Loop([ n |-> n, sum |-> FxZero ])

\* how often a fixed-point number below 1 is doubled to reach 1
RECURSIVE Doublings(_)
Doublings(x) == IF x[1] >= 1 THEN 0 ELSE Doublings(FxTimes(x, 2)) + 1

\* The loop that writes a fixed-point number as digits: loop.out holds
\* the digits so far, loop.rest the part below them
RECURSIVE FxDigits(_, _)
FxDigits(loop, n) ==
    IF Len(loop.out) = n THEN loop
    ELSE LET t == FxTimes([ loop.rest EXCEPT ![1] = 0 ], Base)
         IN  FxDigits([ out |-> Append(loop.out, t[1]), rest |-> t ], n)

\* The double p = count / length is itself rounded: it is count / length
\* + D * 2^p.x / length for the small int D that this gives, the last
\* 24 bits of p.m * length read as a signed number
RatioError(p, length) ==
    LET digits == DigitsTimes(NoDigits, p.m, length)
        low    == DigitsValue(SubSeq(digits, Len(digits) - 2, Len(digits)))
    IN  IF low >= 2^23 THEN low - 2^24 ELSE low

\* -log2 of that double to 24 decimals: the error of p moves the
\* logarithm of count / length by D * 2^x / (count * ln 2)
Log2OfDouble(ratio, D, count, x) ==
    LET corr == FxShift([ x |-> FxOver(FxTimes(FxOver(TWO_OVER_LN2, 2),
                                               IF D < 0 THEN 0 - D ELSE D), count),
                          k |-> x ])
    IN  IF D < 0 THEN FxAdd(ratio, corr) ELSE FxSub(ratio, corr)

\* the e with 2^e <= v < 2^(e + 1) for a fixed-point number v > 0
FxExponent(v) ==
    IF v[1] >= 1 THEN CHOOSE k \in 0..30 : 2^k <= v[1] /\ v[1] < 2^(k + 1)
    ELSE 0 - Doublings(v)

\* The doubles nearest to -(dg.out + dg.rest) * 2^x, dg.out being 53
\* bits and dg.rest the part below them: both neighbours when that part
\* is within a sixteenth of one half, else the nearer one
Log2Doubles(dg, x) ==
    LET part == FxTimes([ dg.rest EXCEPT ![1] = 0 ], 16)[1]
        down == [ neg |-> TRUE, m |-> dg.out, x |-> x ]
        up   == [ RoundToFloat(DigitsPlusOne(dg.out), x, FALSE) EXCEPT !.neg = TRUE ]
    IN  [ down |-> IF part >= 9 THEN up ELSE down,
          up   |-> IF part >= 7 THEN up ELSE down ]

\* the same for the fixed-point number v with 2^e <= v < 2^(e + 1)
Log2Rounded(v, e) ==
    Log2Doubles(FxDigits([ out |-> << >>, rest |-> FxShift([ x |-> v, k |-> 0 - 4 - e ]) ], 7),
                e - 52)

\* math.log2(p) for the double p = count / length of 1 <= count <=
\* length: down and up are the doubles it can return, the same double
\* unless the logarithm lies within a sixteenth of a unit in the last
\* place of the middle between two doubles. (The decimals suffice for
\* lengths up to 1000.)
Log2Nearest(p, count, length) ==
    LET v == Log2OfDouble(FxSub(Log2(length), Log2(count)), RatioError(p, length),
                          count, p.x)
    IN  IF count = length THEN [ down |-> Zero, up |-> Zero ]
        ELSE Log2Rounded(v, FxExponent(v))

RECURSIVE Gcd(_, _)
Gcd(a, b) == IF b = 0 THEN a ELSE Gcd(b, a % b)

\* Counter(password).values(): how often each character occurs, the
\* characters in the order of their first occurrence
Counter(password) ==
    LET first == SelectSeq([ k \in 1..Len(password) |-> k ],
                           LAMBDA k : \A j \in 1..(k - 1) : password[j] # password[k])
    IN  [ n \in 1..Len(first) |->
            Cardinality({ k \in 1..Len(password) : password[k] = password[first[n]] }) ]

\* The functions math.log2 can be on the doubles p of known, which holds
\* for every p what Log2Nearest gives: one function for every choice
\* where Log2Nearest leaves one
Log2Tables(known) ==
    { [ p \in { k.p : k \in known } |->
          LET k == CHOOSE k \in known : k.p = p
          IN  IF k \in high THEN k.log.up ELSE k.log.down ]
        : high \in SUBSET { k \in known : k.log.up # k.log.down } }

\* The functions math.log2 can be on the probabilities count / length
\* of the characters of the passwords
MathLog2(passwords) ==
    Log2Tables({ [ p   |-> TrueDivide(pr[1], pr[2]),
                   log |-> Log2Nearest(TrueDivide(pr[1], pr[2]),
                                       pr[1] \div Gcd(pr[1], pr[2]),
                                       pr[2] \div Gcd(pr[1], pr[2])) ]
                 : pr \in UNION { { << c, Len(passwords[k]) >>
                                      : c \in Range(Counter(passwords[k])) }
                                    : k \in DOMAIN passwords } })

\* q[k], or 0.0 after the end of q
FloatAt(q, k) == IF k <= Len(q) THEN q[k] ELSE Zero

\* sum(q) of a sequence of doubles: Python adds them from left to right
\* to the int 0, each sum rounded; loop.sum is the sum of the first
\* loop.k, and every turn of the loop adds four more
RECURSIVE FloatSum(_, _)
FloatSum(loop, q) ==
    IF loop.k >= Len(q) THEN loop.sum
    ELSE FloatSum([ k   |-> loop.k + 4,
                    sum |-> FloatAdd(FloatAdd(FloatAdd(FloatAdd(loop.sum,
                                FloatAt(q, loop.k + 1)), FloatAt(q, loop.k + 2)),
                                FloatAt(q, loop.k + 3)), FloatAt(q, loop.k + 4)) ], q)

\* -sum(p * math.log2(p) for p in probs) with probs the doubles
\* count / length. The empty password gives the int 0. A password of
\* one repeated character gives the float -0.0: the sum is 1.0 * 0.0
\* and the sign is turned.
shannon_entropy(password, log2) ==
    IF password = << >> THEN 0
    ELSE [ FloatSum([ k |-> 0, sum |-> Zero ],
                    [ k \in 1..Len(Counter(password)) |->
                        FloatProduct(TrueDivide(Counter(password)[k], Len(password)),
                                     log2[TrueDivide(Counter(password)[k], Len(password))]) ])
             EXCEPT !.neg = ~ @ ]

\* e < 2^k for a double e >= 0
FloatBelow(e, k) == e.m = << >> \/ e.x + MantissaBits <= k

\* low / total * 100, as the fraction num/den
EntropyRatio(count, total) == [ num |-> count * 100, den |-> total ]

\* what analyze_entropy prints and writes to its report for the
\* entropies of the passwords: their number, their mean as printed with
\* three decimals, and the number and share of those below 2 bits, from
\* 2 to 4 bits and of 4 bits or more (the standard deviation, the top 10
\* listing and the charts are left out); with nothing to compute it
\* warns and returns
EntropyReport(entropies) ==
    LET total == Len(entropies)
        low   == Len(SelectSeq(entropies, LAMBDA e : FloatBelow(e, 1)))
        mid   == Len(SelectSeq(entropies, LAMBDA e : ~ FloatBelow(e, 1) /\ FloatBelow(e, 2)))
        high  == Len(SelectSeq(entropies, LAMBDA e : ~ FloatBelow(e, 2)))
    IN  IF entropies = << >>
        THEN [ warned |-> TRUE, total |-> 0, low |-> 0, mid |-> 0, high |-> 0,
               avg_entropy |-> 0,
               low_ratio |-> [ num |-> 0, den |-> 1 ],
               mid_ratio |-> [ num |-> 0, den |-> 1 ],
               high_ratio |-> [ num |-> 0, den |-> 1 ] ]
        ELSE [ warned |-> FALSE, total |-> total,
               low |-> low, mid |-> mid, high |-> high,
               avg_entropy |-> FormatFixed(FloatOver(FloatSum([ k |-> 0, sum |-> Zero ],
                                                              entropies), total), 1000),
               low_ratio   |-> EntropyRatio(low, total),
               mid_ratio   |-> EntropyRatio(mid, total),
               high_ratio  |-> EntropyRatio(high, total) ]

\* analyze_entropy(passwords, label) with log2 for math.log2: the
\* entropies are those of the passwords that are not empty
analyze_entropy(passwords, log2) ==
    EntropyReport([ k \in 1..Len(SelectSeq(passwords, LAMBDA p : p # << >>)) |->
                      shannon_entropy(SelectSeq(passwords, LAMBDA p : p # << >>)[k], log2) ])

(***************************************************************************)
(* pw_analy5_wsy.py: English words                                         *)
(***************************************************************************)
PINYIN_SURNAMES ==
    { << "w", "a", "n", "g" >>, << "l", "i" >>,
      << "z", "h", "a", "n", "g" >>, << "l", "i", "u" >>,
      << "c", "h", "e", "n" >>, << "y", "a", "n", "g" >>,
      << "z", "h", "a", "o" >>, << "w", "u" >>, << "z", "h", "o", "u" >>,
      << "x", "u" >>, << "s", "u", "n" >>, << "h", "u" >>,
      << "z", "h", "u" >>, << "g", "a", "o" >>, << "l", "i", "n" >>,
      << "h", "e" >>, << "g", "u", "o" >>, << "m", "a" >>, << "l", "u" >>,
      << "d", "o", "n", "g" >>, << "x", "i", "e" >>,
      << "s", "o", "n", "g" >>, << "s", "h", "i" >>,
      << "t", "a", "n", "g" >>, << "f", "e", "n", "g" >>, << "y", "u" >>,
      << "c", "a", "i" >>, << "p", "a", "n" >>, << "d", "e", "n", "g" >>,
      << "x", "i", "a", "o" >>, << "t", "i", "a", "n" >>,
      << "l", "i", "a", "n", "g" >>, << "w", "e", "i" >>,
      << "j", "i", "a", "n", "g" >>, << "h", "a", "n" >>,
      << "f", "a", "n" >>, << "p", "e", "n", "g" >>,
      << "y", "u", "a", "n" >>, << "c", "a", "o" >>, << "f", "u" >>,
      << "r", "e", "n" >>, << "f", "a", "n", "g" >>,
      << "j", "i", "n", "g" >>, << "c", "h", "e", "n", "g" >>,
      << "q", "i", "a", "n" >>, << "m", "o" >>, << "q", "i", "u" >>,
      << "l", "o", "n", "g" >>, << "c", "h", "a", "n", "g" >>,
      << "q", "i", "a", "o" >>, << "m", "e", "i" >>, << "h", "u", "a" >>,
      << "j", "i", "n" >>, << "t", "a", "o" >>, << "q", "i" >>,
      << "w", "e", "n" >>, << "y", "a", "n" >>, << "b", "a", "o" >>,
      << "d", "u" >>, << "y", "e" >>, << "s", "u" >>, << "p", "e", "i" >>,
      << "l", "u", "o" >>, << "s", "h", "a", "n" >>, << "h", "o", "u" >>,
      << "q", "i", "n" >>, << "r", "u", "a", "n" >>, << "t", "a", "n" >>,
      << "l", "v" >> }

\* re.fullmatch(r'^(...|...)+$', word) for alternatives of three letters
RepeatsChunks(word, chunks) ==
    /\ Len(word) > 0
    /\ Len(word) % 3 = 0
    /\ \A k \in 0..((Len(word) \div 3) - 1) :
           SubSeq(word, 3 * k + 1, 3 * k + 3) \in chunks

KeyboardChunks ==
    { << "q", "w", "e" >>, << "a", "s", "d" >>, << "z", "x", "c" >>, << "p", "o", "i" >>, << "l", "k", "j" >>,
      << "m", "n", "b" >>, << "q", "a", "z" >>, << "w", "s", "x" >>, << "e", "d", "c" >>, << "a", "b", "c" >> }

RepeatedLetterChunks ==
    { << "a", "a", "a" >>, << "b", "b", "b" >>, << "c", "c", "c" >>,
      << "d", "d", "d" >>, << "e", "e", "e" >>, << "f", "f", "f" >> }

\* the three patterns of COMMON_NON_WORDS
COMMON_NON_WORDS(word) ==
    \/ Len(word) \in 1..2 /\ \A k \in 1..Len(word) : word[k] \in Range(LowerLetters)
    \/ RepeatsChunks(word, KeyboardChunks)
    \/ RepeatsChunks(word, RepeatedLetterChunks)

is_noise_word(word) == word \in PINYIN_SURNAMES \/ COMMON_NON_WORDS(word)

\* zipf_frequency(word, 'en') of the wordfreq library, in hundredths; freq is
\* the table of the words the library knows, every other word has 0
zipf_frequency(freq, word) == IF word \in DOMAIN freq THEN freq[word] ELSE 0

is_common_english_word(freq, word, min_freq) ==
    zipf_frequency(freq, word) >= min_freq

\* the defaults of min_freq_all and min_freq_top, in hundredths
MinFreqAll == 300
MinFreqTop == 500

\* the matches of the greedy split from position i on (0-based, as in the
\* code), each with the position where it starts
RECURSIVE GreedyMatchesFrom(_, _, _, _)
GreedyMatchesFrom(freq, segment_lower, i, min_freq) ==
    LET n    == Len(segment_lower)
        ends == { j \in (i + 1)..n :
                    is_common_english_word(freq, SubSeq(segment_lower, i + 1, j),
                                           min_freq) }
    IN  IF i >= n THEN << >>
        ELSE IF ends = {}
             THEN GreedyMatchesFrom(freq, segment_lower, i + 1, min_freq)
             ELSE LET j == CHOOSE e \in ends : \A m \in ends : e >= m
                  IN  << [ start |-> i, word |-> SubSeq(segment_lower, i + 1, j) ] >>
                          \o GreedyMatchesFrom(freq, segment_lower, j, min_freq)

\* the list of lowercase words greedy_word_split_case_insensitive returns
greedy_word_split_case_insensitive(freq, segment, min_freq) ==
    LET found == GreedyMatchesFrom(freq, Lower(segment), 0, min_freq)
    IN  [ k \in 1..Len(found) |-> found[k].word ]

IsLetter(c) == c \in Range(LowerLetters) \/ c \in Range(UpperLetters)

\* re.findall(r"[A-Za-z]+", pwd): the maximal runs of letters
RECURSIVE LetterRunsFrom(_, _)
LetterRunsFrom(pwd, k) ==
    LET letters == { m \in k..Len(pwd) : IsLetter(pwd[m]) }
    IN  IF letters = {} THEN << >>
        ELSE LET lo   == CHOOSE m \in letters : \A n \in letters : m <= n
                 gaps == { m \in lo..Len(pwd) : ~IsLetter(pwd[m]) }
                 hi   == IF gaps = {} THEN Len(pwd)
                         ELSE (CHOOSE m \in gaps : \A n \in gaps : m <= n) - 1
             IN  << SubSeq(pwd, lo, hi) >> \o LetterRunsFrom(pwd, hi + 1)

\* w.islower() and w.isupper() for a string of letters
IsLowerWord(w) == w # << >> /\ \A k \in 1..Len(w) : w[k] \in Range(LowerLetters)

IsUpperWord(w) == w # << >> /\ \A k \in 1..Len(w) : w[k] \in Range(UpperLetters)

CasePattern(w_orig) ==
    IF IsLowerWord(w_orig) THEN "lower"
    ELSE IF IsUpperWord(w_orig) THEN "upper"
    ELSE IF w_orig[1] \in Range(UpperLetters)
            /\ IsLowerWord(SubSeq(w_orig, 2, Len(w_orig)))
         THEN "capitalized"
         ELSE "mixed"

\* the inner loop of extract_valid_words over the splits of one segment,
\* from the k-th split on; idx is the running slice position (0-based)
RECURSIVE WordsOfSplits(_, _, _, _, _, _, _)
WordsOfSplits(freq, seg, splits, k, idx, min_freq, acc) ==
    IF k > Len(splits) THEN acc
    ELSE LET w_lower == splits[k]
             w_orig  == SubSeq(seg, idx + 1, idx + Len(w_lower))
             skip    == \/ Len(w_lower) < 3
                        \/ Len(w_lower) > 15
                        \/ is_noise_word(w_lower)
                        \/ ~is_common_english_word(freq, w_lower, min_freq)
                        \/ w_lower \in acc.seen_in_pwd
             next    == IF skip THEN acc
                        ELSE [ validated     |-> Append(acc.validated, w_orig),
                               case_patterns |-> Append(acc.case_patterns,
                                                        CasePattern(w_orig)),
                               seen_in_pwd   |-> acc.seen_in_pwd \cup { w_lower } ]
         IN  WordsOfSplits(freq, seg, splits, k + 1, idx + Len(w_lower),
                           min_freq, next)

\* the outer loop of extract_valid_words over the letter segments
RECURSIVE WordsOfSegments(_, _, _, _)
WordsOfSegments(freq, candidates, min_freq, acc) ==
    IF candidates = << >> THEN acc
    ELSE LET seg    == candidates[1]
             splits == greedy_word_split_case_insensitive(freq, seg, min_freq)
         IN  WordsOfSegments(freq, SubSeq(candidates, 2, Len(candidates)), min_freq,
                             WordsOfSplits(freq, seg, splits, 1, 0, min_freq, acc))

extract_valid_words(freq, pwd, min_freq) ==
    LET r == WordsOfSegments(freq, LetterRunsFrom(pwd, 1), min_freq,
                             [ validated |-> << >>, case_patterns |-> << >>,
                               seen_in_pwd |-> {} ])
    IN  [ validated |-> r.validated, case_patterns |-> r.case_patterns ]

\* count / total * 100 without a guard, as the fraction num/den; den = 0
\* stands for the ZeroDivisionError
RatioOf(count, total) == [ num |-> count * 100, den |-> total ]

\* all_words, all_cases and word_in_pwd after the loop over passwords
RECURSIVE WordLoop(_, _, _)
WordLoop(freq, passwords, min_freq) ==
    IF passwords = << >>
    THEN [ all_words |-> << >>, all_cases |-> << >>, word_in_pwd |-> 0 ]
    ELSE LET before == WordLoop(freq, SubSeq(passwords, 1, Len(passwords) - 1),
                                min_freq)
             r      == extract_valid_words(freq, passwords[Len(passwords)], min_freq)
         IN  IF r.validated = << >> THEN before
             ELSE [ all_words   |-> before.all_words \o r.validated,
                    all_cases   |-> before.all_cases \o r.case_patterns,
                    word_in_pwd |-> before.word_in_pwd + 1 ]

\* the words of the counter that are frequent enough for the top list, in
\* the order of their first occurrence
RECURSIVE HighFreqWords(_, _)
HighFreqWords(freq, words) ==
    IF words = << >> THEN << >>
    ELSE LET before == HighFreqWords(freq, SubSeq(words, 1, Len(words) - 1))
             w      == words[Len(words)]
         IN  IF is_common_english_word(freq, Lower(w), MinFreqTop)
                /\ w \notin Range(before)
             THEN Append(before, w)
             ELSE before

\* what analyze_english_words writes to the report (the ranking of the top
\* list and the charts left out); raised names the exception it ends with
analyze_english_words(freq, passwords) ==
    LET loop == WordLoop(freq, passwords, MinFreqAll)
        pct  == RatioOf(loop.word_in_pwd, Len(passwords))
    IN  IF pct.den = 0
        THEN [ raised |-> "ZeroDivisionError", total |-> Len(passwords),
               word_in_pwd |-> loop.word_in_pwd, pct |-> pct,
               high_freq_words |-> << >>, all_cases |-> << >> ]
        ELSE [ raised |-> "none", total |-> Len(passwords),
               word_in_pwd |-> loop.word_in_pwd, pct |-> pct,
               high_freq_words |-> HighFreqWords(freq, loop.all_words),
               all_cases |-> loop.all_cases ]

(***************************************************************************)
(* Inputs                                                                  *)
(***************************************************************************)
MaxShort == 3
MaxRecords == 12
MaxStrLen == 4
MaxTokStrLen == 7
MaxLeetLen == 2
MaxLineLen == 5
MaxPwList == 2
MaxPwdLen == 5

\* os.path.basename of the two dump files
FILE1 == "plaintxt_yahoo.txt"
FILE2 == "www.csdn.net.sql"

\* all sequences over pool of length at most n
Lists(pool, n) == UNION { [1..k -> pool] : k \in 0..n }

\* one record for each of the nine outcomes, in priority order
LabelReps ==
    { [ username |-> << "b", "o", "b" >>, email |-> << >>, password |-> << "B", "o", "b", "!" >>, src |-> FILE1 ],
      [ username |-> << >>, email |-> << "a", "l", "@", "x" >>, password |-> << "a", "l", "x" >>, src |-> FILE2 ],
      [ username |-> << "b", "o", "b" >>, email |-> << >>, password |-> << "b", "o", "b", "1", "2" >>, src |-> FILE1 ],
      [ username |-> << >>, email |-> << "a", "l", "@", "x" >>, password |-> << "x", "a", "l", "9" >>, src |-> FILE2 ],
      [ username |-> << "j", "o", ".", "s", "m", "i" >>, email |-> << >>, password |-> << "s", "m", "i", "1" >>, src |-> FILE1 ],
      [ username |-> << "a", "m", "y" >>, email |-> << >>, password |-> << "@", "m", "y" >>, src |-> FILE1 ],
      [ username |-> << "j", "o", ".", "s", "m", "i" >>, email |-> << >>, password |-> << "5", "m", "i", "1" >>, src |-> FILE1 ],
      [ username |-> << "a", "m", "y" >>, email |-> << >>, password |-> << "y", "m", "a", "1" >>, src |-> FILE1 ],
      [ username |-> << "d", "a", "v", "e" >>, email |-> << >>, password |-> << "x", "y", "z" >>, src |-> FILE1 ] }

Usernames ==
    { << >>,
      << "b", "o", "b" >>,
      << "B", ".", "o", ".", "b" >>,
      << "a", "m", "y" >>,
      << "j", "o", ".", "s", "m", "i" >>,
      << "J", "o", "S", "m", "i" >>,
      << "a", "l", ".", "x" >>,
      << "_" >> }

Emails ==
    { << >>,
      << "a", "l", "@", "x" >>,
      << "A", "l", ".", "x" >>,
      << "@" >> }

Passwords ==
    { << >>,
      << "B", "o", "b", "!" >>,
      << "b", "o", "b" >>,
      << "b", "o", "b", "1", "2" >>,
      << "b", "0", "b" >>,
      << "s", "m", "i", "1" >>,
      << "5", "m", "i", "1" >>,
      << "y", "m", "a", "1" >>,
      << "a", "l", "x" >>,
      << "x", "a", "l", "9" >>,
      << "x", "y", "z" >>,
      << "@", "m", "y" >>,
      << "m", "y" >> }

Corpus ==
    { [ username |-> u, email |-> e, password |-> p, src |-> FILE1 ] :
        u \in Usernames, e \in Emails, p \in Passwords }

\* the letters and digits of a string, case folded: what is left of it when
\* case and punctuation are disregarded
CanonicalForm(s) ==
    SelectSeq(Lower(s), LAMBDA c : c \in Range(LowerLetters) \cup Digits)

\* two raw strings that differ only in case or punctuation
SameNormalized(a, b) == CanonicalForm(a) = CanonicalForm(b)

EquivalentRecords(r1, r2) ==
    /\ SameNormalized(r1.username, r2.username)
    /\ SameNormalized(r1.email, r2.email)
    /\ SameNormalized(r1.password, r2.password)

\* the pairs of strings of S with equal normalized forms
SameNormalizedPairs(S) == { q \in S \X S : SameNormalized(q[1], q[2]) }

\* the pairs of records of the corpus whose fields have pairwise equal
\* normalized forms
EquivalentPairs ==
    { << [ username |-> u[1], email |-> e[1], password |-> p[1], src |-> FILE1 ],
         [ username |-> u[2], email |-> e[2], password |-> p[2], src |-> FILE2 ] >> :
        u \in SameNormalizedPairs(Usernames),
        e \in SameNormalizedPairs(Emails),
        p \in SameNormalizedPairs(Passwords) }

\* lists of records for the classification claims: every short list over
\* the nine outcomes, every single record of the corpus, and every pair of
\* records of the corpus whose fields have equal normalized forms
ShortLists ==
    Lists(LabelReps, MaxShort)
        \cup { << r >> : r \in Corpus }
        \cup EquivalentPairs

\* records for the cases the predicates are described with: a reversed
\* username, tokens of a dotted username, tokens of username and local-part
\* matched with and without de-obfuscation, a digit outside the substitution
\* table, and an uppercase password without substitutable characters
AliceReversed == [ username |-> << "a", "l", "i", "c", "e" >>, email |-> << >>, password |-> << "e", "c", "i", "l", "a", "1", "2", "3" >>, src |-> FILE1 ]

JohnSmith == [ username |-> << "j", "o", "h", "n", ".", "s", "m", "i", "t", "h", "9", "9" >>, email |-> << >>, password |-> << "s", "m", "i", "t", "h", "2", "0", "2", "4" >>, src |-> FILE1 ]

ThreeTokens == [ username |-> << "a", "b", "c", ".", "d", "e", "f" >>, email |-> << "G", "h", "i", ".", "j", "k", "@", "x" >>, password |-> << "g", "h", "i", "-", "d", "3", "f", "a", "b", "c" >>, src |-> FILE2 ]

EightForB == [ username |-> << "b", "o", "b" >>, email |-> << >>, password |-> << "8", "o", "b" >>, src |-> FILE1 ]

UpperNoLeet == [ username |-> << "B", "o", "b" >>, email |-> << >>, password |-> << "x", "B", "O", "B", "." >>, src |-> FILE1 ]

RelationExamples ==
    { AliceReversed, JohnSmith, ThreeTokens, EightForB, UpperNoLeet }

\* every record of the corpus and of the examples, alone in a list
SingleLists == { << r >> : r \in Corpus \cup RelationExamples }

\* lists long enough to fill an example list: one record repeated, with at
\* most one other record of the same label and at most one unrelated record
\* anywhere among the repetitions
Repeated == [ username |-> << "b", "o", "b" >>, email |-> << >>, password |-> << "b", "o", "b", "1", "2" >>, src |-> FILE1 ]

SameLabel == [ username |-> << "B", "o", "b" >>, email |-> << >>, password |-> << "1", "b", "o", "b" >>, src |-> FILE2 ]

Unrelated == [ username |-> << "d", "a", "v", "e" >>, email |-> << >>, password |-> << "x", "y", "z" >>, src |-> FILE2 ]

LongLists ==
    { [ n \in 1..k |-> IF n = a THEN SameLabel
                       ELSE IF n = b THEN Unrelated
                       ELSE Repeated ] :
        k \in 0..MaxRecords, a \in 0..MaxRecords, b \in 0..MaxRecords }

\* a list whose shares are rounded differently as floats and as fractions:
\* 23 of 160 records related is 14.375 %, but 23 / 160 * 100 is the float
\* 14.374999999999998 and is written as 14.37; 137 of 160 is the float
\* 85.625 and is written as 85.62
RoundingList == [ n \in 1..160 |-> IF n <= 23 THEN Repeated ELSE Unrelated ]

Alphabet == { "a", "Z", "1", "!", ".", " " }
TokAlphabet == { "a", "B", "." }
LeetAlphabet == DOMAIN LEET_MAP \cup { "a", "A", "8", ".", "É", "\f" }

\* strings with letters of U+00C0..U+00DE and with the whitespace str.strip()
\* removes beyond blank, tab and the line terminators
Latin1Strings ==
    { << " ", "J", "o", "s", "É", " " >>,
      << "\f", "Þ", "o", "r", "-", "À", "b", "c", "" >>,
      << "", "4", "É", "×", "ß", "1", "" >> }

InputStrings ==
    { NoneValue }
        \cup Latin1Strings
        \cup Lists(Alphabet, MaxStrLen)
        \cup Lists(TokAlphabet, MaxTokStrLen)
        \cup Lists(LeetAlphabet, MaxLeetLen)

LineAlphabet == { "a", "#", ":", "@", " ", "'" }

\* every short line, with its line terminator
ShortLines == { l \o << "\n" >> : l \in Lists(LineAlphabet, MaxLineLen) }

\* a few lines in the layout of each dump, with blank lines, a tab, quotes,
\* whitespace and letters of U+0080..U+00FF, both line terminators and a
\* last line without one
YahooSample ==
    << << "1", ":", "b", "o", "b", "@", "x", ".", "c", "o", "m", ":", "p", "w", "1", ":", "p", "w", "1", "\n" >>,
       << "2", ":", "a", "m", "y", ":", "\"", "q", "\"", ":", "s", "e", "#", "c", "r", "e", "t", "\r", "\n" >>,
       << "\n" >>,
       << "4", ":", " ", "J", "o", "É", " ", ":", "\f", "p", "w", "", "\n" >>,
       << " ", "\f", "", "\n" >>,
       << "3", ":", "a", "l", "@", "x", ".", "o", "r", "g", ":", "p", "a", "#", "s", "s" >> >>

CsdnSample ==
    << << "b", "o", "b", " ", "#", " ", "p", "w", " ", "#", " ", "b", "o", "b", "@", "x", ".", "c", "o", "m", "\n" >>,
       << "'", "a", "m", "y", "'", " ", "#", " ", "p", "w", "2", " ", "#", " ", "\n" >>,
       << " ", "\t", "\n" >>,
       << " ", "'", "É", "d", "'", " ", "#", "p", " ", "w", "#", "\f", "e", "@", "x", "\n" >>,
       << "a", "l", " ", "\t", "", "p", "w", "\n" >>,
       << "a", "l", "\t", "p", "w", "\n" >>,
       << "x", "@", "y", ".", "z", " ", "p", "w", " ", "q", "q", "\n" >>,
       << "j", "u", "s", "t", "p", "w" >> >>

InputFiles ==
    { [ path |-> src, lines |-> << l >> ] :
          src \in { FILE1, FILE2 }, l \in ShortLines }
        \cup { [ path |-> FILE1, lines |-> YahooSample ],
               [ path |-> FILE2, lines |-> CsdnSample ] }

\* passwords with keyboard runs in the three directions, forwards and
\* backwards, with dictionary words in each case pattern, and with entropy
\* -0.0, below 2, from 2 to 4, of 4 bits and above 4 bits; the entropy
\* of the password of 24 characters is 2.0 as a float, a little less as
\* a real number
PasswordPool ==
    { << "q", "w", "e", "r", "t", "y", "1" >>,
      << "1", "q", "a", "z" >>,
      << "D", "S", "A", "!", "@", "#" >>,
      << "i", "L", "o", "v", "e", "C", "a", "t", "s" >>,
      << "C", "A", "T", "c", "a", "t" >>,
      << "t", "a", "n", "2", "c", "a", "n" >>,
      << "a", "a" >>,
      << "a", "b", "c", "d" >>,
      << "a", "b", "c", "d", "e", "f", "g", "h", "i", "j", "k", "l", "m", "n", "o", "p" >>,
      << "a", "b", "c", "d", "e", "f", "g", "h", "i", "j", "k", "l", "m", "n", "o", "p", "q" >>,
      << "7", "7", "7", "7", "7", "7", "7", "7", "7", "0", "0", "0", "0", "0", "0", "0", "0",
         "5", "5", "5", "2", "2", "2", "9" >> }

PasswordLists == Lists(PasswordPool, MaxPwList)

\* two tables standing for the word list of the wordfreq library
WordTable ==
    (<< "a" >> :> 720) @@
    (<< "a", "t" >> :> 650) @@
    (<< "c", "a", "n" >> :> 640) @@
    (<< "l", "o", "v", "e" >> :> 590) @@
    (<< "a", "c", "t" >> :> 520) @@
    (<< "c", "a", "t" >> :> 490) @@
    (<< "c", "a", "t", "s" >> :> 450) @@
    (<< "a", "n", "t" >> :> 400) @@
    (<< "t", "a", "n" >> :> 390) @@
    (<< "a", "a", "a" >> :> 310) @@
    (<< "n", "a", "t" >> :> 280)

LongWordTable ==
    (<< "a", "n" >> :> 700) @@
    (<< "c", "a", "n" >> :> 640) @@
    (<< "c", "a", "n", "c", "a", "n" >> :> 310) @@
    (<< "t", "a", "x", "a" >> :> 330) @@
    (<< "a", "c" >> :> 350)

WordTables == { WordTable, LongWordTable }

PwdAlphabet == { "a", "c", "t", "n", "C", "x" }

\* the arguments of extract_valid_words
WordPasswords == Lists(PwdAlphabet, MaxPwdLen) \cup PasswordPool

(***************************************************************************)
(* State                                                                   *)
(***************************************************************************)
VARIABLES
    records,          \* the argument of analyze_relations
    pc,               \* where analyze_relations is
    i,                \* position of the running loop in its list
    total,            \* len(records)
    counts,           \* the Counter
    matches,          \* list of (rec, primary, flags)
    related,          \* locals computed between the two loops
    no_relation,
    related_pct,
    no_relation_pct,
    detail,
    examples,         \* the defaultdict of example lists
    match_csv,        \* the header and the rows written to MATCH_CSV
    report,           \* what is written to REPORT_PATH
    pie,              \* the pie chart drawn for PIE_PNG
    summary,          \* the returned dict
    s_in,             \* the argument of the string functions
    s_pc,             \* which string function runs next
    s_norm,           \* normalize_alnum(s_in)
    s_norm2,          \* normalize_alnum(normalize_alnum(s_in))
    s_tokens,         \* tokenize_name(s_in)
    s_deleet,         \* deleet(s_in)
    f_path,           \* basename of the file parse_file_collect reads
    f_lines,          \* the lines of that file
    f_pos,            \* the line the loop of parse_file_collect is at
    f_pc,             \* where parse_file_collect is
    f_records,        \* its list of records
    passwords,        \* the list the three password analyses are given
    wordfreq,         \* the word table of the wordfreq library
    an_pc,            \* which of the three analyses has run, and how it ended
    kb_report,        \* what analyze_keyboard_patterns reports
    en_report,        \* what analyze_english_words reports
    ent_report,       \* what analyze_entropy reports
    x_pwd,            \* the argument of extract_valid_words
    x_pc,             \* whether extract_valid_words has run
    x_result          \* (validated, case_patterns)

aggVars ==
    << records, pc, i, total, counts, matches, related, no_relation,
       related_pct, no_relation_pct, detail, examples, match_csv, report,
       pie, summary >>

strVars == << s_in, s_pc, s_norm, s_norm2, s_tokens, s_deleet >>

parseVars == << f_path, f_lines, f_pos, f_pc, f_records >>

pwVars ==
    << passwords, wordfreq, an_pc, kb_report, en_report, ent_report,
       x_pwd, x_pc, x_result >>

vars ==
    << records, pc, i, total, counts, matches, related, no_relation,
       related_pct, no_relation_pct, detail, examples, match_csv, report,
       pie, summary,
       s_in, s_pc, s_norm, s_norm2, s_tokens, s_deleet,
       f_path, f_lines, f_pos, f_pc, f_records,
       passwords, wordfreq, an_pc, kb_report, en_report, ent_report,
       x_pwd, x_pc, x_result >>

\* a local that has not been assigned yet
Unassigned == "unassigned"

StrIdle ==
    /\ s_in = << >>
    /\ s_pc = "idle"
    /\ s_norm = Unassigned
    /\ s_norm2 = Unassigned
    /\ s_tokens = Unassigned
    /\ s_deleet = Unassigned

Analyses == { "keyboard", "english", "entropy" }

\* extract_valid_words not called
WordsIdle ==
    /\ x_pwd = << >>
    /\ x_pc = "idle"
    /\ x_result = Unassigned

\* none of the password analyses called
PwIdle ==
    /\ passwords = << >>
    /\ wordfreq = WordTable
    /\ an_pc = [ a \in Analyses |-> "idle" ]
    /\ kb_report = Unassigned
    /\ en_report = Unassigned
    /\ ent_report = Unassigned
    /\ WordsIdle

ParseIdle ==
    /\ f_path = FILE1
    /\ f_lines = << >>
    /\ f_pos = 1
    /\ f_pc = "idle"
    /\ f_records = << >>

\* analyze_relations not called
AggIdle ==
    /\ records = << >>
    /\ pc = "idle"
    /\ i = 1
    /\ total = 0
    /\ counts = [ k \in CountKeys |-> 0 ]
    /\ matches = << >>
    /\ related = Unassigned
    /\ no_relation = Unassigned
    /\ related_pct = Unassigned
    /\ no_relation_pct = Unassigned
    /\ detail = Unassigned
    /\ examples = [ k \in ExampleKeys |-> << >> ]
    /\ match_csv = Unassigned
    /\ report = Unassigned
    /\ pie = Unassigned
    /\ summary = Unassigned

\* analyze_relations(input) entered: lines 205-210
AggStart(input) ==
    /\ records = input
    /\ pc = "classify"
    /\ i = 1
    /\ total = Len(input)
    /\ counts = [ k \in CountKeys |-> 0 ]
    /\ matches = << >>
    /\ related = Unassigned
    /\ no_relation = Unassigned
    /\ related_pct = Unassigned
    /\ no_relation_pct = Unassigned
    /\ detail = Unassigned
    /\ examples = [ k \in ExampleKeys |-> << >> ]
    /\ match_csv = Unassigned
    /\ report = Unassigned
    /\ pie = Unassigned
    /\ summary = Unassigned

Init == (\E input \in ShortLists : AggStart(input)) /\ StrIdle /\ ParseIdle /\ PwIdle

InitLong ==
    (\E input \in LongLists \cup Lists(LabelReps, MaxShort) \cup { RoundingList } :
         AggStart(input))
        /\ StrIdle /\ ParseIdle /\ PwIdle

InitSingle ==
    (\E input \in SingleLists : AggStart(input)) /\ StrIdle /\ ParseIdle /\ PwIdle

InitStr ==
    /\ s_in \in InputStrings
    /\ s_pc = "normalize"
    /\ s_norm = Unassigned
    /\ s_norm2 = Unassigned
    /\ s_tokens = Unassigned
    /\ s_deleet = Unassigned
    /\ AggIdle
    /\ ParseIdle
    /\ PwIdle

\* parse_file_collect(file_path) entered: line 102
InitParse ==
    /\ \E file \in InputFiles :
           /\ f_path = file.path
           /\ f_lines = file.lines
    /\ f_pos = 1
    /\ f_pc = "read"
    /\ f_records = << >>
    /\ AggIdle
    /\ StrIdle
    /\ PwIdle

\* main() of the three analysis scripts after load_passwords
InitPw ==
    /\ passwords \in PasswordLists
    /\ wordfreq \in WordTables
    /\ an_pc = [ a \in Analyses |-> "ready" ]
    /\ kb_report = Unassigned
    /\ en_report = Unassigned
    /\ ent_report = Unassigned
    /\ WordsIdle
    /\ AggIdle
    /\ StrIdle
    /\ ParseIdle

\* extract_valid_words(pwd, min_freq) entered
InitWords ==
    /\ x_pwd \in WordPasswords
    /\ wordfreq \in WordTables
    /\ x_pc = "ready"
    /\ x_result = Unassigned
    /\ passwords = << >>
    /\ an_pc = [ a \in Analyses |-> "idle" ]
    /\ kb_report = Unassigned
    /\ en_report = Unassigned
    /\ ent_report = Unassigned
    /\ AggIdle
    /\ StrIdle
    /\ ParseIdle

(***************************************************************************)
(* analyze_relations                                                       *)
(***************************************************************************)
\* one iteration of "for rec in records": lines 211-224
ClassifyRecord ==
    /\ pc = "classify"
    /\ i <= Len(records)
    /\ LET m == MatchEntry(records[i])
       IN  /\ counts' = CountPrimary(counts, m.primary)
           /\ matches' = Append(matches, m)
    /\ i' = i + 1
    /\ UNCHANGED << records, pc, total, related, no_relation, related_pct,
                    no_relation_pct, detail, examples, match_csv, report,
                    pie, summary >>
    /\ UNCHANGED strVars
    /\ UNCHANGED parseVars
    /\ UNCHANGED pwVars

\* the first loop is over; lines 226-235
ComputeRatios ==
    /\ pc = "classify"
    /\ i > Len(records)
    /\ related' = counts["related"]
    /\ no_relation' = counts["no_relation"]
    /\ related_pct' = Percentage(counts["related"], total)
    /\ no_relation_pct' = Percentage(counts["no_relation"], total)
    /\ detail' = [ k \in Range(priority_keys) |-> counts[k] ]
    /\ pc' = "examples"
    /\ i' = 1
    /\ UNCHANGED << records, total, counts, matches, examples, match_csv,
                    report, pie, summary >>
    /\ UNCHANGED strVars
    /\ UNCHANGED parseVars
    /\ UNCHANGED pwVars

\* one iteration of "for rec, primary, flags in matches": lines 236-239
CollectExample ==
    /\ pc = "examples"
    /\ i <= Len(matches)
    /\ examples' = AddExample(examples, matches[i])
    /\ i' = i + 1
    /\ UNCHANGED << records, pc, total, counts, matches, related, no_relation,
                    related_pct, no_relation_pct, detail, match_csv, report,
                    pie, summary >>
    /\ UNCHANGED strVars
    /\ UNCHANGED parseVars
    /\ UNCHANGED pwVars

\* the second loop is over; the CSV and the report are written and the pie
\* chart is drawn: lines 241-289.  When plt.pie raises, so does
\* analyze_relations, after the two files have been written.
WriteOutputs ==
    /\ pc = "examples"
    /\ i > Len(matches)
    /\ match_csv' = [ header |-> CsvHeader, rows |-> CsvRows(matches) ]
    /\ report' = ReportOf(total, related, related_pct, no_relation,
                          no_relation_pct, detail, examples)
    /\ \E outcome \in PieOutcomes(<< related, no_relation >>) :
           /\ pie' = [ sizes  |-> << related, no_relation >>,
                       labels |-> PieLabels(<< related, no_relation >>),
                       saved  |-> outcome = "saved" ]
           /\ pc' = IF outcome = "saved" THEN "return" ELSE "raised"
    /\ UNCHANGED << records, i, total, counts, matches, related, no_relation,
                    related_pct, no_relation_pct, detail, examples, summary >>
    /\ UNCHANGED strVars
    /\ UNCHANGED parseVars
    /\ UNCHANGED pwVars

\* the summary is returned: lines 291-302
ReturnSummary ==
    /\ pc = "return"
    /\ summary' = [ total           |-> total,
                    related         |-> related,
                    no_relation     |-> no_relation,
                    related_pct     |-> related_pct,
                    no_relation_pct |-> no_relation_pct,
                    detail          |-> detail,
                    report_path     |-> REPORT_PATH,
                    csv_path        |-> MATCH_CSV,
                    pie_path        |-> PIE_PNG ]
    /\ pc' = "done"
    /\ UNCHANGED << records, i, total, counts, matches, related, no_relation,
                    related_pct, no_relation_pct, detail, examples, match_csv,
                    report, pie >>
    /\ UNCHANGED strVars
    /\ UNCHANGED parseVars
    /\ UNCHANGED pwVars

Next ==
    \/ ClassifyRecord
    \/ ComputeRatios
    \/ CollectExample
    \/ WriteOutputs
    \/ ReturnSummary

Spec == Init /\ [][Next]_vars

SpecLong == InitLong /\ [][Next]_vars

SpecSingle == InitSingle /\ [][Next]_vars

(***************************************************************************)
(* The string functions applied to one input                               *)
(***************************************************************************)
ApplyNormalize ==
    /\ s_pc = "normalize"
    /\ s_norm' = normalize_alnum(s_in)
    /\ s_pc' = "renormalize"
    /\ UNCHANGED << s_in, s_norm2, s_tokens, s_deleet >>
    /\ UNCHANGED aggVars
    /\ UNCHANGED parseVars
    /\ UNCHANGED pwVars

ApplyNormalizeAgain ==
    /\ s_pc = "renormalize"
    /\ s_norm2' = normalize_alnum(s_norm)
    /\ s_pc' = "tokenize"
    /\ UNCHANGED << s_in, s_norm, s_tokens, s_deleet >>
    /\ UNCHANGED aggVars
    /\ UNCHANGED parseVars
    /\ UNCHANGED pwVars

ApplyTokenize ==
    /\ s_pc = "tokenize"
    /\ s_tokens' = tokenize_name(s_in)
    /\ s_pc' = "deleet"
    /\ UNCHANGED << s_in, s_norm, s_norm2, s_deleet >>
    /\ UNCHANGED aggVars
    /\ UNCHANGED parseVars
    /\ UNCHANGED pwVars

ApplyDeleet ==
    /\ s_pc = "deleet"
    /\ s_deleet' = deleet(s_in)
    /\ s_pc' = "done"
    /\ UNCHANGED << s_in, s_norm, s_norm2, s_tokens >>
    /\ UNCHANGED aggVars
    /\ UNCHANGED parseVars
    /\ UNCHANGED pwVars

NextStr == ApplyNormalize \/ ApplyNormalizeAgain \/ ApplyTokenize \/ ApplyDeleet

SpecStr == InitStr /\ [][NextStr]_vars

\* one iteration of "for line in f" that skips a blank line: lines 106-108
SkipBlankLine ==
    /\ f_pc = "read"
    /\ f_pos <= Len(f_lines)
    /\ BlankLine(RStripNewline(f_lines[f_pos]))
    /\ f_pos' = f_pos + 1
    /\ UNCHANGED << f_path, f_lines, f_pc, f_records >>
    /\ UNCHANGED aggVars
    /\ UNCHANGED strVars
    /\ UNCHANGED pwVars

\* one iteration of "for line in f" that appends a record: lines 106-139
ParseLine ==
    /\ f_pc = "read"
    /\ f_pos <= Len(f_lines)
    /\ ~BlankLine(RStripNewline(f_lines[f_pos]))
    /\ f_records' =
           Append(f_records, RecordOf(RStripNewline(f_lines[f_pos]), f_path))
    /\ f_pos' = f_pos + 1
    /\ UNCHANGED << f_path, f_lines, f_pc >>
    /\ UNCHANGED aggVars
    /\ UNCHANGED strVars
    /\ UNCHANGED pwVars

\* return records: line 142
ParseReturn ==
    /\ f_pc = "read"
    /\ f_pos > Len(f_lines)
    /\ f_pc' = "done"
    /\ UNCHANGED << f_path, f_lines, f_pos, f_records >>
    /\ UNCHANGED aggVars
    /\ UNCHANGED strVars
    /\ UNCHANGED pwVars

NextParse == SkipBlankLine \/ ParseLine \/ ParseReturn

SpecParse == InitParse /\ [][NextParse]_vars

otherVars == << aggVars, strVars, parseVars >>

\* analyze_keyboard_patterns(passwords, label)
AnalyzeKeyboard ==
    /\ an_pc["keyboard"] = "ready"
    /\ kb_report' = analyze_keyboard_patterns(passwords)
    /\ an_pc' = [ an_pc EXCEPT !["keyboard"] = "done" ]
    /\ UNCHANGED << passwords, wordfreq, en_report, ent_report,
                    x_pwd, x_pc, x_result >>
    /\ UNCHANGED otherVars

\* analyze_english_words(passwords, label, report_file)
AnalyzeEnglish ==
    /\ an_pc["english"] = "ready"
    /\ en_report' = analyze_english_words(wordfreq, passwords)
    /\ an_pc' = [ an_pc EXCEPT !["english"] =
                      IF en_report'.raised = "none" THEN "done" ELSE "raised" ]
    /\ UNCHANGED << passwords, wordfreq, kb_report, ent_report,
                    x_pwd, x_pc, x_result >>
    /\ UNCHANGED otherVars

\* analyze_entropy(passwords, label), with math.log2 any of the functions
\* the C library's logarithm can be on the probabilities that occur
AnalyzeEntropy ==
    /\ an_pc["entropy"] = "ready"
    /\ \E log2 \in MathLog2(passwords) :
           ent_report' = analyze_entropy(passwords, log2)
    /\ an_pc' = [ an_pc EXCEPT !["entropy"] = "done" ]
    /\ UNCHANGED << passwords, wordfreq, kb_report, en_report,
                    x_pwd, x_pc, x_result >>
    /\ UNCHANGED otherVars

NextPw == AnalyzeKeyboard \/ AnalyzeEnglish \/ AnalyzeEntropy

SpecPw == InitPw /\ [][NextPw]_vars

\* extract_valid_words(x_pwd, min_freq_all)
ExtractValidWords ==
    /\ x_pc = "ready"
    /\ x_result' = extract_valid_words(wordfreq, x_pwd, MinFreqAll)
    /\ x_pc' = "done"
    /\ UNCHANGED << passwords, wordfreq, an_pc, kb_report, en_report,
                    ent_report, x_pwd >>
    /\ UNCHANGED otherVars

NextWords == ExtractValidWords

SpecWords == InitWords /\ [][NextWords]_vars

(***************************************************************************)
(* Properties                                                              *)
(***************************************************************************)
\* the priority order as the specification states it
StatedOrder ==
    << "exact_username", "exact_email", "contains_username",
       "contains_localpart", "contains_token", "deleet_contains_username",
       "deleet_contains_token", "reversed_username" >>

\* C1: the primary relation of every classified record is the first label
\* of the stated order whose flag is true, and it is none exactly when all
\* eight flags are false: one of nine outcomes for every record.
C1_PrimaryIsFirstTrueFlag ==
    \A n \in 1..Len(matches) :
        LET m == matches[n]
        IN  /\ m.primary \in Range(StatedOrder) \cup { NoPrimary }
            /\ m.flags = detect_relations(records[n])
            /\ (m.primary = NoPrimary) <=>
                   (\A k \in 1..8 : ~m.flags[StatedOrder[k]])
            /\ \A k \in 1..8 :
                   (m.primary = StatedOrder[k]) <=>
                       /\ m.flags[StatedOrder[k]]
                       /\ \A j \in 1..(k - 1) : ~m.flags[StatedOrder[j]]

\* a list whose records got the first, the last and no label, the first of
\* them with a lower-priority flag true as well
C1_Witness ==
    /\ pc = "done"
    /\ Len(matches) = 3
    /\ matches[1].primary = "exact_username"
    /\ matches[1].flags.contains_username
    /\ matches[1].flags.contains_token
    /\ matches[2].primary = "reversed_username"
    /\ matches[3].primary = NoPrimary

RECURSIVE SumOver(_, _)
SumOver(f, keys) ==
    IF keys = {} THEN 0
    ELSE LET k == CHOOSE x \in keys : TRUE
         IN  f[k] + SumOver(f, keys \ { k })

C2_Sums ==
    /\ counts["related"] + counts["no_relation"] = Len(matches)
    /\ SumOver(counts, Range(StatedOrder)) = counts["related"]
    /\ pc = "classify" => Len(matches) = i - 1
    /\ pc = "done" =>
          /\ summary.total = Len(records)
          /\ summary.related + summary.no_relation = summary.total
          /\ SumOver(summary.detail, Range(StatedOrder)) = summary.related

C2_OneIncrement ==
    Len(matches') = Len(matches) + 1 =>
        \E key \in Range(StatedOrder) \cup { "no_relation" } :
            /\ counts'[key] = counts[key] + 1
            /\ \A other \in (Range(StatedOrder) \cup { "no_relation" }) \ { key } :
                   counts'[other] = counts[other]

\* C2: after any prefix of n records, and in the returned summary,
\* related + no_relation = n and the eight per-label counts add up to
\* related; a record increments exactly one of the per-label counters and
\* no_relation, never two.
C2_CountsAddUp == [] C2_Sums /\ [][C2_OneIncrement]_vars

C2_Witness ==
    /\ pc = "done"
    /\ summary.total = 3
    /\ summary.related = 2
    /\ summary.no_relation = 1
    /\ summary.detail["contains_token"] = 1
    /\ summary.detail["exact_email"] = 1

HasLabel(m, key) ==
    IF key = "no_relation" THEN m.primary = NoPrimary ELSE m.primary = key

\* the records among the first n that received the label key, in input order
Labelled(key, n) ==
    LET at == SelectSeq([ k \in 1..n |-> k ], LAMBDA k : HasLabel(matches[k], key))
    IN  [ j \in 1..Len(at) |-> records[at[j]] ]

FirstTen(q) == SubSeq(q, 1, IF Len(q) < 10 THEN Len(q) ELSE 10)

\* C3: the example list of every label never exceeds 10 entries and holds
\* exactly the first min(10, k) records that received the label, in input
\* order.
C3_ExamplesAreFirstTen ==
    \A key \in Range(StatedOrder) \cup { "no_relation" } :
        /\ Len(examples[key]) <= 10
        /\ pc = "classify" => examples[key] = << >>
        /\ pc = "examples" => examples[key] = FirstTen(Labelled(key, i - 1))
        /\ pc \in { "return", "raised", "done" } =>
               examples[key] = FirstTen(Labelled(key, Len(records)))
        /\ pc \in { "return", "raised", "done" } =>
               \E k \in DOMAIN report.examples :
                   /\ report.examples[k].key = key
                   /\ Len(report.examples[k].lines) <= 10
                   /\ examples[key] # << >> =>
                          report.examples[k].lines = examples[key]

\* eleven records with one label, a record of another label among the
\* first ten, so that the tenth example is the eleventh record and the
\* twelfth record, which differs from it, is left out
C3_Witness ==
    /\ pc = "done"
    /\ Len(records) = 12
    /\ Len(Labelled("contains_username", Len(records))) = 11
    /\ Len(examples["contains_username"]) = 10
    /\ Len(examples["no_relation"]) = 1
    /\ matches[2].primary = NoPrimary
    /\ examples["contains_username"][10] = records[11]
    /\ records[11] # records[12]

\* the rearrangements of a list
PermutationsOf(q) ==
    { [ k \in 1..Len(q) |-> q[f[k]] ] : f \in Permutations(1..Len(q)) }

\* C4: every permutation of the records gives the same total, related,
\* no_relation and per-label counts as the run did, and the entry of a
\* record is the one it gets when classified alone.
C4_CountsOrderIndependent ==
    pc = "done" =>
        /\ \A q \in PermutationsOf(records) :
              LET c == CountsAfter(q)
              IN  /\ summary.total = Len(q)
                  /\ summary.related = c["related"]
                  /\ summary.no_relation = c["no_relation"]
                  /\ \A k \in Range(StatedOrder) : summary.detail[k] = c[k]
        /\ \A n \in 1..Len(records) : matches[n] = MatchEntry(records[n])

C4_Witness ==
    /\ pc = "done"
    /\ Len(records) = 3
    /\ matches[1].primary = "contains_username"
    /\ matches[2].primary = NoPrimary
    /\ matches[3].primary = "exact_username"
    /\ summary.related = 2

BooleanFlags ==
    { "exact_username", "exact_email", "contains_username",
      "startswith_username", "endswith_username", "contains_localpart",
      "contains_token", "reversed_username", "deleet_contains_username",
      "deleet_contains_token" }

EmptyIdentity(rec) ==
    /\ normalize_alnum(rec.username) = << >>
    /\ normalize_alnum(rec.email) = << >>

\* C5: a record whose username and email are empty or normalize to the
\* empty string has every boolean flag false and both matched-token lists
\* empty, whatever the password, and its primary relation is none.
C5_EmptyIdentityMatchesNothing ==
    \A n \in 1..Len(matches) :
        EmptyIdentity(records[n]) =>
            /\ \A f \in BooleanFlags : ~matches[n].flags[f]
            /\ matches[n].flags.matched_tokens = << >>
            /\ matches[n].flags.matched_deleet_tokens = << >>
            /\ matches[n].primary = NoPrimary

\* punctuation-only identity strings and an empty password
C5_Witness ==
    /\ pc = "done"
    /\ Len(records) = 1
    /\ records[1].username = << "_" >>
    /\ records[1].email = << "@" >>
    /\ records[1].password = << >>
    /\ matches[1].primary = NoPrimary

\* C6: on the empty record sequence analyze_relations raises nothing and
\* returns: both percentages are 0 and neither is a division by zero, and
\* the summary it returns has total, related, no_relation, both
\* percentages and all eight per-label counts equal to 0.  (The
\* percentages are 0 and the summary, when one is returned, is all 0;
\* but where plt.pie raises on the sizes 0 and 0, the return is not
\* reached.)
C6_EmptyInputReturnsAllZero ==
    records = << >> =>
        /\ pc # "raised"
        /\ pc \in { "examples", "return", "done" } =>
               /\ related_pct.den # 0
               /\ related_pct.num = 0
               /\ no_relation_pct.den # 0
               /\ no_relation_pct.num = 0
        /\ pc = "done" =>
               /\ summary.total = 0
               /\ summary.related = 0
               /\ summary.no_relation = 0
               /\ summary.related_pct.num = 0
               /\ summary.no_relation_pct.num = 0
               /\ \A k \in Range(StatedOrder) : summary.detail[k] = 0

\* what deleet gives for one character when '!' stands for the letter bang
LeetTableWith(bang, c) ==
    IF c \in { "4", "@" } THEN "a"
    ELSE IF c = "0" THEN "o"
    ELSE IF c = "1" THEN "l"
    ELSE IF c = "!" THEN bang
    ELSE IF c = "3" THEN "e"
    ELSE IF c \in { "$", "5" } THEN "s"
    ELSE IF c \in { "7", "+" } THEN "t"
    ELSE IF c = "2" THEN "z"
    ELSE IF c \in { "9", "6" } THEN "g"
    ELSE LowerChar(c)

DeleetFollows(bang) ==
    (s_pc = "done" /\ s_in # NoneValue) =>
        /\ Len(s_deleet) = Len(s_in)
        /\ \A k \in 1..Len(s_in) : s_deleet[k] = LeetTableWith(bang, s_in[k])

\* C7 as stated: deleet substitutes 4,@ -> a; 0 -> o; 1,! -> l; 3 -> e;
\* $,5 -> s; 7,+ -> t; 2 -> z; 9,6 -> g, and nothing else.
C7_Original == DeleetFollows("l")

\* C7 amended: deleet substitutes 4,@ -> a; 0 -> o; 1 -> l; ! -> i; 3 -> e;
\* $,5 -> s; 7,+ -> t; 2 -> z; 9,6 -> g, and nothing else.
C7_LeetTable ==
    /\ DeleetFollows("i")
    /\ DOMAIN LEET_MAP =
          { "4", "@", "0", "1", "!", "3", "$", "5", "7", "+", "2", "9", "6" }

C7_Witness ==
    /\ s_pc = "done"
    /\ s_in = << "!", "1" >>
    /\ s_deleet = << "i", "l" >>

\* C8 as stated: two records whose usernames, emails and passwords differ
\* only in case or punctuation get the same boolean flags and the same
\* primary relation.
C8_Original ==
    \A a, b \in 1..Len(matches) :
        EquivalentRecords(records[a], records[b]) =>
            /\ \A f \in BooleanFlags : matches[a].flags[f] = matches[b].flags[f]
            /\ matches[a].primary = matches[b].primary

NormalizedOnlyFlags ==
    { "exact_username", "exact_email", "contains_username",
      "startswith_username", "endswith_username", "reversed_username" }

\* C8 amended: two such records get the same exact_username, exact_email,
\* contains_username, startswith_username, endswith_username and
\* reversed_username flags, and the same primary relation whenever the
\* primary relation of either is exact_username, exact_email or
\* contains_username.
C8_NormalizedFlagsAgree ==
    \A a, b \in 1..Len(matches) :
        EquivalentRecords(records[a], records[b]) =>
            /\ \A f \in NormalizedOnlyFlags :
                   matches[a].flags[f] = matches[b].flags[f]
            /\ matches[a].primary \in
                   { "exact_username", "exact_email", "contains_username" }
                   => matches[b].primary = matches[a].primary

\* two records that differ in case and punctuation only, both classified
C8_Witness ==
    /\ pc = "done"
    /\ Len(records) = 2
    /\ EquivalentRecords(records[1], records[2])
    /\ records[1].username # records[2].username
    /\ records[1].email # records[2].email
    /\ records[1].password # records[2].password
    /\ matches[1].flags.exact_username
    /\ matches[2].flags.exact_username

\* C9: normalize_alnum is idempotent, gives the empty string for None, and
\* its result holds only characters of [a-z0-9].
C9_NormalizeIdempotent ==
    /\ s_pc \notin { "normalize" } =>
          /\ \A k \in 1..Len(s_norm) :
                 s_norm[k] \in Range(LowerLetters) \cup Digits
          /\ s_in = NoneValue => s_norm = << >>
    /\ s_pc \notin { "normalize", "renormalize" } => s_norm2 = s_norm

C9_Witness ==
    /\ s_pc = "done"
    /\ s_in = << "Z", ".", "a", "1" >>
    /\ s_norm = << "z", "a", "1" >>
    /\ s_norm2 = s_norm

\* the maximal runs of [A-Za-z0-9] of s that are at least 3 long, as pairs
\* of first and last position
LongRuns(s) ==
    { r \in (1..Len(s)) \X (1..Len(s)) :
        /\ r[1] <= r[2]
        /\ \A k \in r[1]..r[2] : s[k] \in AlnumChars
        /\ r[1] = 1 \/ s[r[1] - 1] \notin AlnumChars
        /\ r[2] = Len(s) \/ s[r[2] + 1] \notin AlnumChars
        /\ r[2] - r[1] + 1 >= 3 }

\* C10: tokenize_name(s) is the sequence of the maximal runs of [A-Za-z0-9]
\* of s that are at least 3 long, lowercased, from left to right with
\* duplicates kept; the empty input and None give the empty sequence.
C10_TokensAreLongRuns ==
    s_pc \in { "deleet", "done" } =>
        IF s_in = NoneValue THEN s_tokens = << >>
        ELSE LET runs == LongRuns(s_in)
             IN  /\ Len(s_tokens) = Cardinality(runs)
                 /\ \A r \in runs :
                       s_tokens[Cardinality({ q \in runs : q[1] <= r[1] })]
                           = Lower(SubSeq(s_in, r[1], r[2]))

\* two equal tokens, both with an uppercase letter in the input
C10_Witness ==
    /\ s_pc = "done"
    /\ s_in = << "a", "B", "a", ".", "a", "B", "a" >>
    /\ s_tokens = << << "a", "b", "a" >>, << "a", "b", "a" >> >>

\* C11: a record whose exact_username flag is true has contains_username,
\* startswith_username and endswith_username true and exact_username as
\* its primary relation, also when exact_email is true as well.
C11_ExactImpliesContains ==
    \A n \in 1..Len(matches) :
        LET m == matches[n]
        IN  m.flags.exact_username =>
                /\ m.flags.contains_username
                /\ m.flags.startswith_username
                /\ m.flags.endswith_username
                /\ m.primary = "exact_username"
                /\ m.flags.exact_email => m.primary # "exact_email"

\* username, email and password all normalize to the same string
C11_Witness ==
    /\ pc = "done"
    /\ Len(matches) = 1
    /\ matches[1].flags.exact_username
    /\ matches[1].flags.exact_email
    /\ matches[1].primary = "exact_username"

\* u read backwards occurs in p
OccursReversed(u, p) ==
    \E k \in 0..(Len(p) - Len(u)) :
        \A j \in 1..Len(u) : p[k + j] = u[Len(u) + 1 - j]

\* C12: reversed_username is true exactly when the normalized username is
\* not empty and its reversal is a substring of the normalized password; it
\* is the primary relation only when the other seven flags are false;
\* alice / ecila123 has reversed_username true and contains_username false.
C12_ReversedUsername ==
    \A n \in 1..Len(matches) :
        LET m == matches[n]
            u == normalize_alnum(records[n].username)
            p == normalize_alnum(records[n].password)
        IN  /\ m.flags.reversed_username <=> (u # << >> /\ OccursReversed(u, p))
            /\ m.primary = "reversed_username" =>
                   \A k \in 1..7 : ~m.flags[StatedOrder[k]]
            /\ records[n] = AliceReversed =>
                   m.flags.reversed_username /\ ~m.flags.contains_username

C12_Witness ==
    /\ pc = "done"
    /\ records = << AliceReversed >>
    /\ matches[1].flags.reversed_username
    /\ ~matches[1].flags.contains_username
    /\ matches[1].primary = "reversed_username"

\* matched is the subsequence of the tokens that occur in p, in token order
IsMatchedSubsequence(matched, tokens, p) ==
    LET hits == { k \in 1..Len(tokens) :
                    \E a \in 0..(Len(p) - Len(tokens[k])) :
                        SubSeq(p, a + 1, a + Len(tokens[k])) = tokens[k] }
    IN  /\ Len(matched) = Cardinality(hits)
        /\ \A k \in hits :
               matched[Cardinality({ j \in hits : j <= k })] = tokens[k]

\* C13: with tokens = tokenize_name(username) followed by
\* tokenize_name(local-part), matched_tokens is the subsequence of the
\* tokens that are substrings of the normalized password, in token order,
\* and contains_token is true iff it is not empty; matched_deleet_tokens and
\* deleet_contains_token are the same against the de-obfuscated normalized
\* password, in a list of their own.
C13_MatchedTokens ==
    \A n \in 1..Len(matches) :
        LET m      == matches[n]
            tokens == tokenize_name(records[n].username)
                          \o tokenize_name(LocalPart(records[n].email))
            p      == normalize_alnum(records[n].password)
            pd     == normalize_alnum(deleet(records[n].password))
        IN  /\ IsMatchedSubsequence(m.flags.matched_tokens, tokens, p)
            /\ m.flags.contains_token <=> (m.flags.matched_tokens # << >>)
            /\ IsMatchedSubsequence(m.flags.matched_deleet_tokens, tokens, pd)
            /\ m.flags.deleet_contains_token <=>
                   (m.flags.matched_deleet_tokens # << >>)

\* three tokens, two of them in the password as written and all three in
\* the de-obfuscated one
C13_Witness ==
    /\ pc = "done"
    /\ records = << ThreeTokens >>
    /\ matches[1].flags.matched_tokens =
          << << "a", "b", "c" >>, << "g", "h", "i" >> >>
    /\ matches[1].flags.matched_deleet_tokens =
          << << "a", "b", "c" >>, << "d", "e", "f" >>, << "g", "h", "i" >> >>

\* the characters the substitution table replaces
SubstitutionCharacters ==
    { "4", "@", "0", "1", "!", "3", "$", "5", "7", "+", "2", "9", "6" }

\* C17: for a record whose password has none of the substitution-table
\* characters, deleet_contains_username equals contains_username and
\* matched_deleet_tokens equals matched_tokens, and neither
\* deleet_contains_username nor deleet_contains_token is its primary relation.
C17_NoSubstitutionNoDeleetLabel ==
    \A n \in 1..Len(matches) :
        LET m   == matches[n]
            pwd == OrEmpty(records[n].password)
        IN  (\A k \in 1..Len(pwd) : pwd[k] \notin SubstitutionCharacters) =>
                /\ m.flags.deleet_contains_username = m.flags.contains_username
                /\ m.flags.matched_deleet_tokens = m.flags.matched_tokens
                /\ m.flags.deleet_contains_token = m.flags.contains_token
                /\ m.primary \notin
                       { "deleet_contains_username", "deleet_contains_token" }

\* an uppercase password without substitutable characters that holds the
\* username: both predicates are true and the plain one is primary
C17_Witness ==
    /\ pc = "done"
    /\ records = << UpperNoLeet >>
    /\ matches[1].flags.deleet_contains_username
    /\ matches[1].flags.contains_username
    /\ matches[1].flags.matched_deleet_tokens = << << "b", "o", "b" >> >>
    /\ matches[1].primary = "contains_username"

\* the lines read so far that are not blank, without their terminators
LinesParsed ==
    SelectSeq([ n \in 1..(f_pos - 1) |-> RStripNewline(f_lines[n]) ],
              LAMBDA l : ~BlankLine(l))

\* C14: every line that is not blank yields a record by its layout: with at
\* least three '#'-delimited fields, username is the first field, password
\* the second and email the third; otherwise, with at least three
\* ':'-delimited fields, username is the second field and password the last
\* (fields trimmed, surrounding quotes stripped).
C14_LayoutDecidesFields ==
    /\ Len(f_records) = Len(LinesParsed)
    /\ \A n \in 1..Len(f_records) :
           LET rec    == f_records[n]
               hashed == SplitOn(LinesParsed[n], "#")
               coloned == SplitOn(LinesParsed[n], ":")
           IN  /\ Len(hashed) >= 3 =>
                      /\ rec.username = strip_quotes(Strip(hashed[1]))
                      /\ rec.password = strip_quotes(Strip(hashed[2]))
                      /\ rec.email = strip_quotes(Strip(hashed[3]))
               /\ (Len(hashed) < 3 /\ Len(coloned) >= 3) =>
                      /\ rec.username = strip_quotes(Strip(coloned[2]))
                      /\ rec.password =
                             strip_quotes(Strip(coloned[Len(coloned)]))

\* C15: on the empty password list each of analyze_keyboard_patterns,
\* analyze_english_words and analyze_entropy ends without a
\* ZeroDivisionError, and every percentage it reports is 0.
C15_EmptyListNoDivisionByZero ==
    passwords = << >> =>
        /\ an_pc["keyboard"] # "raised"
        /\ an_pc["english"] # "raised"
        /\ an_pc["entropy"] # "raised"
        /\ an_pc["keyboard"] = "done" =>
               /\ kb_report.ratio.den # 0
               /\ kb_report.ratio.num = 0
               /\ \A d \in Range(Directions) :
                      kb_report.pct[d].den # 0 /\ kb_report.pct[d].num = 0
        /\ an_pc["english"] = "done" =>
               en_report.pct.den # 0 /\ en_report.pct.num = 0
        /\ an_pc["entropy"] = "done" =>
               \A r \in { ent_report.low_ratio, ent_report.mid_ratio,
                          ent_report.high_ratio } : r.den # 0 /\ r.num = 0

\* every match of the greedy split in the letter segments of pwd, in order,
\* with its segment and the position where it was matched
AllMatches(freq, pwd) ==
    LET runs == LetterRunsFrom(pwd, 1)
    IN  Flatten([ s \in 1..Len(runs) |->
            LET found == GreedyMatchesFrom(freq, Lower(runs[s]), 0, MinFreqAll)
            IN  [ k \in 1..Len(found) |->
                    [ seg |-> runs[s], start |-> found[k].start,
                      word |-> found[k].word ] ] ])

\* the matches extract_valid_words keeps: 3 to 15 letters, not a noise word,
\* not matched earlier in the password
KeptMatches(freq, pwd) ==
    LET all == AllMatches(freq, pwd)
        kept == { k \in 1..Len(all) :
                    /\ Len(all[k].word) >= 3
                    /\ Len(all[k].word) <= 15
                    /\ ~is_noise_word(all[k].word)
                    /\ \A j \in 1..(k - 1) : all[j].word # all[k].word }
    IN  SelectSeq([ k \in 1..Len(all) |-> [ all[k] EXCEPT !.start =
                        IF k \in kept THEN @ ELSE -1 ] ],
                  LAMBDA m : m.start >= 0)

\* C16: each word extract_valid_words returns is the slice of its letter
\* segment at the position where the greedy split matched it, so its
\* lowercase form is the matched dictionary word and the recorded case
\* pattern is that of the matched slice, also after skipped characters.
C16_WordsAreMatchedSlices ==
    x_pc = "done" =>
        LET kept == KeptMatches(wordfreq, x_pwd)
        IN  /\ Len(x_result.validated) = Len(kept)
            /\ Len(x_result.case_patterns) = Len(kept)
            /\ \A k \in 1..Len(kept) :
                   LET slice == SubSeq(kept[k].seg, kept[k].start + 1,
                                       kept[k].start + Len(kept[k].word))
                   IN  /\ x_result.validated[k] = slice
                       /\ Lower(x_result.validated[k]) = kept[k].word
                       /\ x_result.case_patterns[k] = CasePattern(slice)

=============================================================================
